---- MODULE Spec2Model ----
(***************************************************************************)
(* Lead-qualification call orchestrator: the lead store, the phase engine  *)
(* (LeadService), the call lifecycle (CallService) and the webhook         *)
(* correlation cascades (api/elevenlabs.py, api/calls.py, api/leads.py).   *)
(***************************************************************************)
EXTENDS Integers, Sequences, FiniteSets, TLC

VARIABLES
    leads,      \* table "leads": sequence of rows, row i has id i
    calls,      \* table "calls": sequence of rows, row i has id i (creation order)
    pending,    \* outbound initiations suspended at the provider await
    last,       \* what the most recent handler did and returned
    prewarm_service, \* ElevenLabsPrewarmService singleton: _cache, _last_lead_id
    prompt_storage, \* PromptStorage singleton: _storage
    now         \* the clock datetime.now() / utcnow() reads, in minutes

vars == <<leads, calls, pending, last, prewarm_service, prompt_storage, now>>

(* The two in-memory caches and the clock they expire by.  No request      *)
(* handler reads either cache, so their operations are followed in         *)
(* SpecCaches and the store-side specifications leave them as constructed. *)
caches == <<prewarm_service, prompt_storage, now>>

-----------------------------------------------------------------------------
(* Nullable column / Optional[...] values: None is <<>>, a value v is <<v>>. *)

None == <<>>
Some(v) == <<v>>

(* ElevenLabsPrewarmService as constructed: _cache empty, _last_lead_id    *)
(* None.                                                                   *)
EmptyPrewarm == [cache |-> <<>>, last_lead_id |-> None]

(* Both caches as constructed, the clock at the start of the run.          *)
CachesConstructed ==
    prewarm_service = EmptyPrewarm /\ prompt_storage = <<>> /\ now = 0

(* Columns of type Integer; every other modelled nullable column is text.  *)
IntFields == {"budget", "yearly_wage"}

(* Columns holding a phone number, modelled as a sequence of characters.   *)
PhoneFields == {"phone"}

(* The value of field f that Python's truth test rejects besides None:     *)
(* 0 for an integer, the empty string for text.                            *)
Falsy(f) ==
    IF f \in IntFields THEN Some(0)
    ELSE IF f \in PhoneFields THEN Some(<<>>)
    ELSE Some("")

(* Python truthiness of an Optional value of field f: `if lead.budget:`.   *)
Truthy(f, x) == x # None /\ x # Falsy(f)

-----------------------------------------------------------------------------
(* LeadPhase and the Lead row.                                             *)

LeadPhase == {"CONFIRM_INFO", "BOOKING_VIEWING", "VIEWING_BOOKED", "COMPLETED"}

(* A row of "leads" with every nullable column NULL and every flag at its  *)
(* column default.                                                         *)
Lead ==
    [name |-> None, phone |-> None, budget |-> None, move_in_date |-> None,
     occupation |-> None, yearly_wage |-> None, contract_length |-> None,
     name_confirmed |-> FALSE, budget_confirmed |-> FALSE,
     move_in_date_confirmed |-> FALSE, occupation_confirmed |-> FALSE,
     yearly_wage_confirmed |-> FALSE, contract_length_confirmed |-> FALSE,
     phase |-> "CONFIRM_INFO",
     viewing_date |-> None, viewing_time |-> None, viewing_notes |-> None,
     call_transcript |-> None]

(* The confirmation columns of "leads".                                    *)
ConfirmationColumns ==
    {"name_confirmed", "budget_confirmed", "move_in_date_confirmed",
     "occupation_confirmed", "yearly_wage_confirmed", "contract_length_confirmed"}

(* Mutant of create_lead: the confirmation flags set on creation.          *)
create_lead_confirmed(lead_data) ==
    [f \in DOMAIN Lead |->
        IF f \in DOMAIN lead_data /\ lead_data[f] # None THEN lead_data[f]
        ELSE IF f = "phase" THEN "CONFIRM_INFO"
        ELSE IF f \in ConfirmationColumns THEN TRUE
        ELSE Lead[f]]

(* LeadService.create_lead: the payload's non-None fields, phase forced to *)
(* CONFIRM_INFO, everything else at the column default.                    *)
create_lead(lead_data) ==
    [f \in DOMAIN Lead |->
        IF f \in DOMAIN lead_data /\ lead_data[f] # None THEN lead_data[f]
        ELSE IF f = "phase" THEN "CONFIRM_INFO"
        ELSE Lead[f]]

-----------------------------------------------------------------------------
(* Phase engine: LeadService.check_phase_requirements / update_lead_phase. *)

(* Mutant of required_confirmations: the optional confirmation required.   *)
required_confirmations_with_contract ==
    <<"name_confirmed", "budget_confirmed", "move_in_date_confirmed",
      "occupation_confirmed", "yearly_wage_confirmed", "contract_length_confirmed">>

required_confirmations ==
    <<"name_confirmed", "budget_confirmed", "move_in_date_confirmed",
      "occupation_confirmed", "yearly_wage_confirmed">>

(* confirmation_field.replace('_confirmed', '')                            *)
field_name(confirmation_field) ==
    CASE confirmation_field = "name_confirmed" -> "name"
      [] confirmation_field = "budget_confirmed" -> "budget"
      [] confirmation_field = "move_in_date_confirmed" -> "move_in_date"
      [] confirmation_field = "occupation_confirmed" -> "occupation"
      [] confirmation_field = "yearly_wage_confirmed" -> "yearly_wage"
      [] confirmation_field = "contract_length_confirmed" -> "contract_length"

IsMissing(lead, c) == lead[field_name(c)] = None
IsUnconfirmed(lead, c) == lead[field_name(c)] # None /\ ~lead[c]

RECURSIVE FieldNames(_)
FieldNames(cs) ==
    IF cs = <<>> THEN <<>> ELSE <<field_name(Head(cs))>> \o FieldNames(Tail(cs))

(* Mutant of confirm_info_can_progress: the missing-fields test dropped.   *)
confirm_info_ignoring_missing(lead, missing_fields) ==
    \A k \in 1..Len(required_confirmations) :
        LET c == required_confirmations[k] IN
        lead[field_name(c)] # None => lead[c]

(* Lines 129-139: `all_confirmed and not missing_fields`, where            *)
(* all_confirmed ranges over the required fields that have a value.        *)
confirm_info_can_progress(lead, missing_fields) ==
    LET all_confirmed ==
            \A k \in 1..Len(required_confirmations) :
                LET c == required_confirmations[k] IN
                lead[field_name(c)] # None => lead[c]
    IN  all_confirmed /\ missing_fields = <<>>

(* Mutant of booking_viewing_can_progress: `or` in place of `and`.         *)
booking_viewing_either(lead) ==
    Truthy("viewing_date", lead.viewing_date) \/ Truthy("viewing_time", lead.viewing_time)

(* Lines 141-145: `if lead.viewing_date and lead.viewing_time`.            *)
booking_viewing_can_progress(lead) ==
    Truthy("viewing_date", lead.viewing_date) /\ Truthy("viewing_time", lead.viewing_time)

check_phase_requirements(lead) ==
    LET missing_cs == SelectSeq(required_confirmations, LAMBDA c: IsMissing(lead, c))
        unconfirmed_cs == SelectSeq(required_confirmations, LAMBDA c: IsUnconfirmed(lead, c))
        missing_fields == FieldNames(missing_cs)
        unconfirmed_fields == FieldNames(unconfirmed_cs)
        progress ==
            IF lead.phase = "CONFIRM_INFO"
            THEN IF confirm_info_can_progress(lead, missing_fields)
                 THEN <<TRUE, Some("BOOKING_VIEWING")>> ELSE <<FALSE, None>>
            ELSE IF lead.phase = "BOOKING_VIEWING"
            THEN IF booking_viewing_can_progress(lead)
                 THEN <<TRUE, Some("VIEWING_BOOKED")>> ELSE <<FALSE, None>>
            ELSE <<FALSE, None>>
    IN  [current_phase |-> lead.phase,
         can_progress |-> progress[1],
         missing_fields |-> missing_fields,
         unconfirmed_fields |-> unconfirmed_fields,
         next_phase |-> progress[2]]

(* Mutant of update_lead_phase: the next phase taken without the check.    *)
update_lead_phase_unchecked(lead) ==
    IF lead.phase = "CONFIRM_INFO"
    THEN [lead |-> [lead EXCEPT !.phase = "BOOKING_VIEWING"], ret |-> TRUE]
    ELSE IF lead.phase = "BOOKING_VIEWING"
    THEN [lead |-> [lead EXCEPT !.phase = "VIEWING_BOOKED"], ret |-> TRUE]
    ELSE [lead |-> lead, ret |-> FALSE]

(* Returns the lead as persisted and the boolean the method returns.       *)
update_lead_phase(lead) ==
    LET phase_info == check_phase_requirements(lead) IN
    IF phase_info.can_progress /\ phase_info.next_phase # None
    THEN [lead |-> [lead EXCEPT !.phase = phase_info.next_phase[1]], ret |-> TRUE]
    ELSE [lead |-> lead, ret |-> FALSE]

-----------------------------------------------------------------------------
(* Batch update: AgentUpdateRequest and LeadService.process_agent_update.  *)

(* AgentUpdateRequest with every optional field at its schema default.     *)
AgentUpdateRequest ==
    [lead_id |-> 1,
     confirm_name |-> FALSE, confirm_budget |-> FALSE,
     confirm_move_in_date |-> FALSE, confirm_occupation |-> FALSE,
     confirm_yearly_wage |-> FALSE, confirm_contract_length |-> FALSE,
     name |-> None, occupation |-> None, yearly_wage |-> None,
     contract_length |-> None,
     viewing_date |-> None, viewing_time |-> None, viewing_notes |-> None]

(* The JSON body of an update as the agent sends it: the schema's fields,  *)
(* plus values for budget and move_in_date, which the schema does not      *)
(* declare.                                                                *)
AgentUpdateBody ==
    [f \in DOMAIN AgentUpdateRequest \cup {"budget", "move_in_date"} |->
        IF f \in DOMAIN AgentUpdateRequest THEN AgentUpdateRequest[f] ELSE None]

(* Pydantic validation of the body into AgentUpdateRequest: undeclared     *)
(* keys are ignored.                                                       *)
parse_AgentUpdateRequest(body) ==
    [f \in DOMAIN AgentUpdateRequest |-> body[f]]

(* Mutant of apply_confirmations: a confirm flag is applied whether or not *)
(* the lead has the value.                                                 *)
apply_confirmations_unguarded(lead, r) ==
    [lead EXCEPT
        !.name_confirmed = IF r.confirm_name THEN TRUE ELSE @,
        !.budget_confirmed = IF r.confirm_budget THEN TRUE ELSE @,
        !.move_in_date_confirmed = IF r.confirm_move_in_date THEN TRUE ELSE @,
        !.occupation_confirmed = IF r.confirm_occupation THEN TRUE ELSE @,
        !.yearly_wage_confirmed = IF r.confirm_yearly_wage THEN TRUE ELSE @,
        !.contract_length_confirmed = IF r.confirm_contract_length THEN TRUE ELSE @]

(* Step 1 (lines 227-251): confirm existing data, `if confirm_X and lead.X`. *)
apply_confirmations(lead, r) ==
    [lead EXCEPT
        !.name_confirmed =
            IF r.confirm_name /\ Truthy("name", lead.name) THEN TRUE ELSE @,
        !.budget_confirmed =
            IF r.confirm_budget /\ Truthy("budget", lead.budget) THEN TRUE ELSE @,
        !.move_in_date_confirmed =
            IF r.confirm_move_in_date /\ Truthy("move_in_date", lead.move_in_date)
            THEN TRUE ELSE @,
        !.occupation_confirmed =
            IF r.confirm_occupation /\ Truthy("occupation", lead.occupation)
            THEN TRUE ELSE @,
        !.yearly_wage_confirmed =
            IF r.confirm_yearly_wage /\ Truthy("yearly_wage", lead.yearly_wage)
            THEN TRUE ELSE @,
        !.contract_length_confirmed =
            IF r.confirm_contract_length /\ Truthy("contract_length", lead.contract_length)
            THEN TRUE ELSE @]

(* Step 2 (lines 253-273): new data is automatically confirmed.            *)
(* name, occupation, contract_length: `if update_request.X:`;              *)
(* yearly_wage: `if update_request.yearly_wage is not None:`.              *)
apply_new_data(lead, r) ==
    [lead EXCEPT
        !.name = IF Truthy("name", r.name) THEN r.name ELSE @,
        !.name_confirmed = IF Truthy("name", r.name) THEN TRUE ELSE @,
        !.occupation = IF Truthy("occupation", r.occupation) THEN r.occupation ELSE @,
        !.occupation_confirmed = IF Truthy("occupation", r.occupation) THEN TRUE ELSE @,
        !.yearly_wage = IF r.yearly_wage # None THEN r.yearly_wage ELSE @,
        !.yearly_wage_confirmed = IF r.yearly_wage # None THEN TRUE ELSE @,
        !.contract_length =
            IF Truthy("contract_length", r.contract_length) THEN r.contract_length ELSE @,
        !.contract_length_confirmed =
            IF Truthy("contract_length", r.contract_length) THEN TRUE ELSE @]

(* Step 3 (lines 275-286): viewing information, `if update_request.X:`.    *)
apply_viewing(lead, r) ==
    [lead EXCEPT
        !.viewing_date =
            IF Truthy("viewing_date", r.viewing_date) THEN r.viewing_date ELSE @,
        !.viewing_time =
            IF Truthy("viewing_time", r.viewing_time) THEN r.viewing_time ELSE @,
        !.viewing_notes =
            IF Truthy("viewing_notes", r.viewing_notes) THEN r.viewing_notes ELSE @]

(* A batch update that keeps advancing while the phase check allows it.    *)
process_agent_update_repeated(lead, r) ==
    LET applied == apply_viewing(apply_new_data(apply_confirmations(lead, r), r), r)
        phase_info == check_phase_requirements(applied)
        adv == update_lead_phase(update_lead_phase(applied).lead)
    IN  IF phase_info.can_progress
        THEN [lead |-> adv.lead,
              phase_info |-> check_phase_requirements(adv.lead),
              advance_called |-> TRUE, advance_ret |-> TRUE]
        ELSE [lead |-> applied,
              phase_info |-> phase_info,
              advance_called |-> FALSE, advance_ret |-> FALSE]

(* Steps 1-5 on a lead that was found.  Returns the persisted lead, the    *)
(* phase info returned, and whether update_lead_phase was called (and, if  *)
(* so, what it returned).                                                  *)
process_agent_update(lead, r) ==
    LET applied == apply_viewing(apply_new_data(apply_confirmations(lead, r), r), r)
        phase_info == check_phase_requirements(applied)
        adv == update_lead_phase(applied)
    IN  IF phase_info.can_progress
        THEN [lead |-> adv.lead,
              phase_info |-> check_phase_requirements(adv.lead),
              advance_called |-> TRUE, advance_ret |-> adv.ret]
        ELSE [lead |-> applied,
              phase_info |-> phase_info,
              advance_called |-> FALSE, advance_ret |-> FALSE]

-----------------------------------------------------------------------------
(* Inputs of the phase engine.                                             *)

PhoneIntl == <<"+", "4", "4", "7", "7", "0", "0", "9", "0", "0", "1", "2", "3">>

RequiredFields == {"name", "budget", "move_in_date", "occupation", "yearly_wage"}

(* LeadCreate payload with the five required fields supplied.              *)
FullLeadCreate ==
    [name |-> Some("Alice"), phone |-> Some(PhoneIntl), budget |-> Some(1200),
     move_in_date |-> Some("2025-09-01"), occupation |-> Some("Nurse"),
     yearly_wage |-> Some(30000), contract_length |-> None]

(* LeadCreate payloads: name and phone only; all five required fields;     *)
(* all five with one of them absent or falsy (0, "", which the validators  *)
(* accept); all five falsy; all five plus a contract length.               *)
LeadCreateInputs ==
    {[name |-> Some("Alice"), phone |-> Some(PhoneIntl)]}
    \cup {FullLeadCreate}
    \cup {[FullLeadCreate EXCEPT ![f] = None] : f \in RequiredFields}
    \cup {[FullLeadCreate EXCEPT ![f] = Falsy(f)] : f \in RequiredFields}
    \cup {[f \in DOMAIN FullLeadCreate |->
              IF f \in RequiredFields THEN Falsy(f) ELSE FullLeadCreate[f]]}
    \cup {[FullLeadCreate EXCEPT !.contract_length = Some("SIX_MONTHS")]}

ConfirmFlags ==
    {"confirm_name", "confirm_budget", "confirm_move_in_date",
     "confirm_occupation", "confirm_yearly_wage", "confirm_contract_length"}

(* The request that sets exactly the flags in S.                           *)
Confirming(S) ==
    [f \in DOMAIN AgentUpdateBody |->
        IF f \in ConfirmFlags THEN f \in S ELSE AgentUpdateBody[f]]

ConfirmAllRequired == Confirming(ConfirmFlags \ {"confirm_contract_length"})

(* End-of-call update bodies: nothing; one flag; the five required flags;  *)
(* all six; one new value (truthy or falsy); viewing fields; and the mixed *)
(* updates "confirm everything and book" and "confirm and rename".         *)
AgentUpdateInputs ==
    {AgentUpdateBody, [AgentUpdateBody EXCEPT !.lead_id = 2]}
    \cup {Confirming({c}) : c \in ConfirmFlags}
    \cup {ConfirmAllRequired, Confirming(ConfirmFlags)}
    \cup {[AgentUpdateBody EXCEPT !.name = v] : v \in {Some(""), Some("Bob")}}
    \cup {[AgentUpdateBody EXCEPT !.occupation = v] : v \in {Some(""), Some("Teacher")}}
    \cup {[AgentUpdateBody EXCEPT !.yearly_wage = v] : v \in {Some(0), Some(45000)}}
    \cup {[AgentUpdateBody EXCEPT !.budget = Some(1500)],
          [AgentUpdateBody EXCEPT !.move_in_date = Some("2025-10-01")]}
    \cup {[AgentUpdateBody EXCEPT !.contract_length = Some("TWELVE_MONTHS")]}
    \cup {[AgentUpdateBody EXCEPT !.viewing_date = d] : d \in {Some(""), Some("2025-09-10")}}
    \cup {[AgentUpdateBody EXCEPT !.viewing_time = t] : t \in {Some(""), Some("14:00")}}
    \cup {[AgentUpdateBody EXCEPT !.viewing_notes = n] : n \in {Some(""), Some("ring the bell")}}
    \cup {[AgentUpdateBody EXCEPT !.viewing_date = Some("2025-09-10"),
                                     !.viewing_time = Some("14:00")]}
    \cup {[ConfirmAllRequired EXCEPT !.viewing_date = Some("2025-09-10"),
                                     !.viewing_time = Some("14:00")],
          [Confirming({"confirm_name"}) EXCEPT !.name = Some("Bob")]}

-----------------------------------------------------------------------------
(* Operations of the phase engine on the store.                            *)

(* LeadService.get_lead                                                    *)
get_lead(lead_id) == IF lead_id \in 1..Len(leads) THEN Some(leads[lead_id]) ELSE None

(* What a handler did: the operation, the lead it concerned (0: none), the *)
(* call it concerned (0: none), what it returned, and whether it called    *)
(* update_lead_phase.                                                      *)
Result(op, lead_id, ret, advance_called) ==
    [op |-> op, lead_id |-> lead_id, call_id |-> 0, ret |-> ret,
     advance_called |-> advance_called]

CallResult(op, lead_id, call_id, ret) ==
    [op |-> op, lead_id |-> lead_id, call_id |-> call_id, ret |-> ret,
     advance_called |-> FALSE]

(* process_agent_update(update_request): ValueError when the lead is not   *)
(* found, else the batch update followed by the phase check.               *)
AgentUpdate(body) ==
    LET r == parse_AgentUpdateRequest(body) IN
    /\ IF get_lead(r.lead_id) = None
       THEN /\ leads' = leads
            /\ last' = Result("process_agent_update", r.lead_id, "ValueError", FALSE)
       ELSE LET res == process_agent_update(leads[r.lead_id], r) IN
            /\ leads' = [leads EXCEPT ![r.lead_id] = res.lead]
            /\ last' = Result("process_agent_update", r.lead_id, "ok", res.advance_called)
    /\ UNCHANGED <<calls, pending>>
    /\ UNCHANGED caches

(* update_lead_phase(lead) on a stored lead.                               *)
Advance(lead_id) ==
    /\ lead_id \in 1..Len(leads)
    /\ LET res == update_lead_phase(leads[lead_id]) IN
        /\ leads' = [leads EXCEPT ![lead_id] = res.lead]
        /\ last' = Result("update_lead_phase", lead_id,
                          IF res.ret THEN "true" ELSE "false", TRUE)
    /\ UNCHANGED <<calls, pending>>
    /\ UNCHANGED caches

(* The phase engine on one lead, from the moment it is created.            *)
InitPhase ==
    /\ leads \in {<<create_lead(p)>> : p \in LeadCreateInputs}
    /\ calls = <<>>
    /\ pending = {}
    /\ last = Result("create_lead", 1, "created", FALSE)
    /\ CachesConstructed

NextPhase ==
    \/ \E body \in AgentUpdateInputs : AgentUpdate(body)
    \/ \E i \in 1..Len(leads) : Advance(i)

SpecPhase == InitPhase /\ [][NextPhase]_vars

-----------------------------------------------------------------------------
(* Calls: the Call row, the CallCreate / CallUpdate schemas, CallService.  *)

CallStatus == {"initiated", "in_progress", "completed", "failed"}

(* A row of "calls" with the column defaults.                              *)
Call ==
    [lead_id |-> 0, conversation_id |-> None, transcript |-> None,
     system_prompt |-> None, analyzed |-> FALSE, status |-> "initiated",
     duration_seconds |-> None]

CallCreate ==
    [lead_id |-> 0, conversation_id |-> None, system_prompt |-> None,
     status |-> "initiated"]

CallUpdate ==
    [conversation_id |-> None, transcript |-> None, system_prompt |-> None,
     analyzed |-> None, status |-> None, duration_seconds |-> None]

(* Mutant of conversation_id_unique: the column without its constraint.    *)
conversation_id_unconstrained(rows) == TRUE

(* unique=True on Call.conversation_id: no two rows hold the same non-NULL *)
(* value; a commit that would break this raises IntegrityError.            *)
conversation_id_unique(rows) ==
    \A i, j \in 1..Len(rows) :
        (i # j /\ rows[i].conversation_id # None)
            => rows[i].conversation_id # rows[j].conversation_id

(* CallService.create_call.  ok = FALSE: the flush inside commit() raised  *)
(* IntegrityError; the transaction is rolled back, the table is as before, *)
(* and the Session stays inactive: until rollback(), which no handler      *)
(* calls, every further use of it in the request raises                    *)
(* PendingRollbackError, a reload of an expired attribute included.        *)
create_call(rows, call_data) ==
    LET new_call == [Call EXCEPT !.lead_id = call_data.lead_id,
                                 !.conversation_id = call_data.conversation_id,
                                 !.system_prompt = call_data.system_prompt,
                                 !.status = call_data.status]
        added == Append(rows, new_call)
    IN  IF conversation_id_unique(added)
        THEN [calls |-> added, ok |-> TRUE, id |-> Len(added)]
        ELSE [calls |-> rows, ok |-> FALSE, id |-> 0]

(* CallService.get_call_by_conversation_id: the id of the first row with   *)
(* that conversation_id, 0 for None.                                       *)
get_call_by_conversation_id(rows, conversation_id) ==
    LET found == {i \in 1..Len(rows) : rows[i].conversation_id = Some(conversation_id)}
    IN  IF found = {} THEN 0
        ELSE CHOOSE i \in found : \A j \in found : i <= j

(* Mutant of update_call: the patch written over a fresh row.              *)
update_call_fresh_row(rows, call_id, call_update) ==
    IF call_id \notin 1..Len(rows)
    THEN [calls |-> rows, ok |-> TRUE]
    ELSE [calls |-> [rows EXCEPT ![call_id] =
                        [Call EXCEPT !.conversation_id = call_update.conversation_id,
                                     !.transcript = call_update.transcript,
                                     !.system_prompt = call_update.system_prompt,
                                     !.status = IF call_update.status # None
                                                THEN call_update.status[1] ELSE @]],
          ok |-> TRUE]

(* Mutant of update_call: the patch dumped without exclude_none, so that   *)
(* the nullable columns take the None of the fields left out.              *)
update_call_with_none(rows, call_id, call_update) ==
    IF call_id \notin 1..Len(rows)
    THEN [calls |-> rows, ok |-> TRUE]
    ELSE LET call == rows[call_id]
             written ==
                 [call EXCEPT
                     !.conversation_id = call_update.conversation_id,
                     !.transcript = call_update.transcript,
                     !.system_prompt = call_update.system_prompt,
                     !.analyzed = IF call_update.analyzed # None
                                  THEN call_update.analyzed[1] ELSE @,
                     !.status = IF call_update.status # None
                                THEN call_update.status[1] ELSE @,
                     !.duration_seconds = call_update.duration_seconds]
             updated == [rows EXCEPT ![call_id] = written]
         IN  IF conversation_id_unique(updated)
             THEN [calls |-> updated, ok |-> TRUE]
             ELSE [calls |-> rows, ok |-> FALSE]

(* CallService.update_call: the fields of call_update that are not None    *)
(* are written (model_dump(exclude_none=True)); an unknown id changes      *)
(* nothing.  ok = FALSE: the commit raised as in create_call, the table is *)
(* as before.                                                              *)
update_call(rows, call_id, call_update) ==
    IF call_id \notin 1..Len(rows)
    THEN [calls |-> rows, ok |-> TRUE]
    ELSE LET call == rows[call_id]
             written ==
                 [call EXCEPT
                     !.conversation_id =
                         IF call_update.conversation_id # None
                         THEN call_update.conversation_id ELSE @,
                     !.transcript =
                         IF call_update.transcript # None
                         THEN call_update.transcript ELSE @,
                     !.system_prompt =
                         IF call_update.system_prompt # None
                         THEN call_update.system_prompt ELSE @,
                     !.analyzed =
                         IF call_update.analyzed # None
                         THEN call_update.analyzed[1] ELSE @,
                     !.status =
                         IF call_update.status # None
                         THEN call_update.status[1] ELSE @,
                     !.duration_seconds =
                         IF call_update.duration_seconds # None
                         THEN call_update.duration_seconds ELSE @]
             updated == [rows EXCEPT ![call_id] = written]
         IN  IF conversation_id_unique(updated)
             THEN [calls |-> updated, ok |-> TRUE]
             ELSE [calls |-> rows, ok |-> FALSE]

(* Mutant of store_transcript: the transcript stored, the status left.     *)
store_transcript_keep_status(rows, conversation_id, transcript) ==
    LET call_id == get_call_by_conversation_id(rows, conversation_id) IN
    IF call_id = 0
    THEN [calls |-> rows, ret |-> FALSE, id |-> 0]
    ELSE [calls |-> [rows EXCEPT ![call_id].transcript = Some(transcript)],
          ret |-> TRUE, id |-> call_id]

(* CallService.store_transcript: False when no call has the conversation   *)
(* id, else the transcript is stored and the status set to completed.      *)
store_transcript(rows, conversation_id, transcript) ==
    LET call_id == get_call_by_conversation_id(rows, conversation_id) IN
    IF call_id = 0
    THEN [calls |-> rows, ret |-> FALSE, id |-> 0]
    ELSE [calls |-> [rows EXCEPT ![call_id].transcript = Some(transcript),
                                 ![call_id].status = "completed"],
          ret |-> TRUE, id |-> call_id]

Digits == {"0", "1", "2", "3", "4", "5", "6", "7", "8", "9"}

(* ''.join(filter(str.isdigit, phone_number))                              *)
clean_phone(phone_number) == SelectSeq(phone_number, LAMBDA ch : ch \in Digits)

(* s[-10:] of a string of at least 10 characters.                          *)
last_10(s) == SubSeq(s, Len(s) - 9, Len(s))

(* Mutant of phone_matches: the stored phone compared as written.          *)
phone_matches_exact(phone_number, lead) == lead.phone = Some(phone_number)

(* Mutant of phone_matches: the length test dropped; s[-10:] of a shorter  *)
(* string is the string.                                                   *)
phone_matches_any_length(phone_number, lead) ==
    /\ Truthy("phone", lead.phone)
    /\ LET tail(t) == IF Len(t) >= 10 THEN last_10(t) ELSE t
       IN  tail(clean_phone(phone_number)) = tail(clean_phone(lead.phone[1]))

(* Lines 217-221: the test one stored lead passes.                         *)
phone_matches(phone_number, lead) ==
    /\ Truthy("phone", lead.phone)
    /\ LET clean == clean_phone(phone_number)
           lead_phone_clean == clean_phone(lead.phone[1])
       IN  /\ Len(clean) >= 10 /\ Len(lead_phone_clean) >= 10
           /\ last_10(clean) = last_10(lead_phone_clean)

(* Mutant of find_lead_by_phone: no stored lead is ever found.             *)
find_lead_by_phone_none(rows, phone_number) == {}

(* CallService._find_lead_by_phone returns the first matching lead of a    *)
(* query that has no ORDER BY: any of the matching leads.  The set of ids  *)
(* it can return; empty when it returns None.                              *)
find_lead_by_phone(rows, phone_number) ==
    {i \in 1..Len(rows) : phone_matches(phone_number, rows[i])}

(* ElevenLabsService.build_system_prompt: the general template rendered    *)
(* with build_template_variables(lead), of which the model keeps           *)
(* lead_phase.                                                             *)
build_system_prompt(lead) == [lead_phase |-> lead.phase]

-----------------------------------------------------------------------------
(* Bounds and inputs of the store.                                         *)

MaxLeads == 2
MaxCalls == 2

(* settings.auto_call_new_leads                                            *)
auto_call_new_leads == TRUE

(* The number of PhoneIntl as dialled inside the country.                  *)
PhoneNational == <<"0", "7", "7", "0", "0", "9", "0", "0", "1", "2", "3">>

(* Payloads of POST /leads.                                                *)
ApiLeadInputs == {FullLeadCreate}

ConvIds == {"c1", "c2"}
CallSids == {"s1"}
Transcripts == {"t1"}

Optional(S) == {None} \cup {Some(x) : x \in S}

(* What the provider answers to an outbound call request: a response with  *)
(* a conversation id, a response without one, or an error.                 *)
ProviderOutcomes ==
    {[raised |-> FALSE, conversation_id |-> c] : c \in Optional(ConvIds)}
    \cup {[raised |-> TRUE, conversation_id |-> None]}

(* Payloads of the personalization webhook.                                *)
PersonalizationInputs ==
    [conversation_id : Optional(ConvIds),
     call_sid : Optional(CallSids),
     caller_phone : Optional({PhoneNational})]

(* Payloads of the transcript webhook.                                     *)
TranscriptInputs ==
    [conversation_id : Optional(ConvIds),
     transcript : Optional(Transcripts),
     caller_phone : Optional({PhoneNational}),
     call_sid : Optional(CallSids)]

(* End-of-call updates sent for the stored leads.                          *)
StoreAgentUpdateInputs ==
    {[body EXCEPT !.lead_id = i] :
        body \in {[ConfirmAllRequired EXCEPT !.viewing_date = Some("2025-09-10"),
                                             !.viewing_time = Some("14:00")]},
        i \in 1..MaxLeads}

-----------------------------------------------------------------------------
(* API handlers on the store.  A handler runs on the event loop without    *)
(* interruption except where it awaits the provider.                       *)

(* POST /leads (api/leads.py create_lead) up to the provider await: the    *)
(* lead is created; with auto-call on and a phone present a Call is        *)
(* created in status initiated and the handler suspends.                   *)
ApiCreateLead(lead_data) ==
    /\ Len(leads) < MaxLeads
    /\ LET lead == create_lead(lead_data)
           lead_id == Len(leads) + 1
       IN  /\ leads' = Append(leads, lead)
           /\ IF auto_call_new_leads /\ Truthy("phone", lead.phone)
              THEN /\ Len(calls) < MaxCalls
                   /\ LET created == create_call(calls,
                              [CallCreate EXCEPT
                                  !.lead_id = lead_id,
                                  !.system_prompt = Some(build_system_prompt(lead))])
                      IN  /\ calls' = created.calls
                          /\ pending' = pending \cup
                                 {[call_id |-> created.id, handler |-> "create_lead"]}
                          /\ last' = CallResult("create_lead", lead_id, created.id, "calling")
              ELSE /\ UNCHANGED <<calls, pending>>
                   /\ last' = CallResult("create_lead", lead_id, 0, "201")
    /\ UNCHANGED caches

(* POST /calls/initiate (api/calls.py initiate_call) up to the provider    *)
(* await, or to its return on the 404, 400 and Twilio paths.               *)
InitiateCall(lead_id, phone_override, use_elevenlabs_telephony) ==
    LET lead == get_lead(lead_id)
        phone_to_call ==
            IF Truthy("phone", phone_override) THEN phone_override ELSE lead[1].phone
    IN
    /\ IF lead = None
       THEN /\ last' = CallResult("initiate_call", 0, 0, "404")
            /\ UNCHANGED <<leads, calls, pending>>
       ELSE IF ~Truthy("phone", phone_to_call)
       THEN /\ last' = CallResult("initiate_call", 0, 0, "400")
            /\ UNCHANGED <<leads, calls, pending>>
       ELSE IF use_elevenlabs_telephony
       THEN /\ Len(calls) < MaxCalls
            /\ LET created == create_call(calls,
                       [CallCreate EXCEPT
                           !.lead_id = lead_id,
                           !.system_prompt = Some(build_system_prompt(lead[1]))])
               IN  /\ calls' = created.calls
                   /\ pending' = pending \cup
                          {[call_id |-> created.id, handler |-> "initiate_call"]}
                   /\ last' = CallResult("initiate_call", lead_id, created.id, "calling")
            /\ UNCHANGED leads
       ELSE /\ last' = CallResult("initiate_call", 0, 0, "twilio")
            /\ UNCHANGED <<leads, calls, pending>>
    /\ UNCHANGED caches

(* The rest of a suspended handler, run when the provider answers.         *)
(* initiate_call (lines 134-149): a conversation id is stored with status  *)
(* in_progress; when the provider raises, the call is marked failed and    *)
(* 500 returned.  create_lead (lines 79-100): the same update, but the     *)
(* provider's exception is only logged.  When the commit of the update     *)
(* raises, the handler's next use of the session raises again (line 148 of *)
(* calls.py, line 100 of leads.py): the call stays as it was and the       *)
(* request ends in a 500.                                                  *)
ProviderResponse(p, outcome) ==
    /\ p \in pending
    /\ LET stored ==
               IF outcome.conversation_id # None /\ ~outcome.raised
               THEN update_call(calls, p.call_id,
                        [CallUpdate EXCEPT !.conversation_id = outcome.conversation_id,
                                           !.status = Some("in_progress")])
               ELSE [calls |-> calls, ok |-> TRUE]
           failed == update_call(calls, p.call_id,
                                 [CallUpdate EXCEPT !.status = Some("failed")])
       IN  /\ calls' =
                 IF ~stored.ok THEN calls
                 ELSE IF ~outcome.raised THEN stored.calls
                 ELSE IF p.handler = "initiate_call" THEN failed.calls
                 ELSE calls
           /\ last' = CallResult(p.handler, calls[p.call_id].lead_id, p.call_id,
                                 IF ~stored.ok THEN "500"
                                 ELSE IF ~outcome.raised THEN "200"
                                 ELSE IF p.handler = "initiate_call" THEN "500"
                                 ELSE "201")
    /\ pending' = pending \ {p}
    /\ UNCHANGED leads
    /\ UNCHANGED caches

(* GET /leads/{lead_id}/phase (api/leads.py check_lead_phase).             *)
CheckLeadPhase(lead_id) ==
    /\ last' =
          IF get_lead(lead_id) = None
          THEN Result("check_lead_phase", lead_id, "404", FALSE)
          ELSE LET info == check_phase_requirements(leads[lead_id]) IN
               Result("check_lead_phase", lead_id,
                      IF info.next_phase = None THEN "none" ELSE info.next_phase[1],
                      FALSE)
    /\ UNCHANGED <<leads, calls, pending>>
    /\ UNCHANGED caches

-----------------------------------------------------------------------------
(* POST /elevenlabs/personalization.                                       *)

(* Server-initiated mode (lines 124-143): ?lead_id=N answers from that     *)
(* lead, or 404; nothing is written.                                       *)
PersonalizationLeadId(lead_id_param) ==
    /\ last' =
          IF get_lead(lead_id_param) = None
          THEN CallResult("personalization", 0, 0, "404")
          ELSE CallResult("personalization", lead_id_param, 0, "lead_id_param")
    /\ UNCHANGED <<leads, calls, pending>>
    /\ UNCHANGED caches

(* Mutant of call_identifier: the telephony call id preferred.             *)
call_identifier_call_sid_first(payload) ==
    IF payload.call_sid # None THEN payload.call_sid
    ELSE payload.conversation_id

(* Mutant of call_identifier: an event without identifier given a         *)
(* made-up one, as lines 310-315 would.                                    *)
call_identifier_temp(payload) ==
    IF payload.conversation_id # None THEN payload.conversation_id
    ELSE IF payload.call_sid # None THEN payload.call_sid
    ELSE Some("temp")

(* `conversation_id or payload.get("call_sid")` (line 226).                *)
call_identifier(payload) ==
    IF payload.conversation_id # None THEN payload.conversation_id
    ELSE payload.call_sid

(* Mutant of lookup_call_record: the lookup by conversation id skipped.    *)
lookup_call_record_skipped(rows, payload) == 0

(* Method 1 (lines 210-222): the Call whose conversation_id is the         *)
(* event's, 0 when the event has none or no Call has it.                   *)
lookup_call_record(rows, payload) ==
    IF payload.conversation_id = None THEN 0
    ELSE get_call_by_conversation_id(rows, payload.conversation_id[1])

(* Method 2 and the lead branch (lines 228-349) for an event with an       *)
(* identifier and a caller phone that matched no Call: `found` is the lead *)
(* _find_lead_by_phone returned (0: none, a lead "Unknown Caller" is       *)
(* created).  A Call is created for the lead with the identifier as key    *)
(* and status in_progress and then receives the lead's prompt.  If the     *)
(* commit of the creation raises, the exception is logged (line 295) and   *)
(* the read of lead.id on line 301 raises again: no Call is written and    *)
(* the request ends in a 500; a lead created on the way stays.             *)
PersonalizeByPhone(lead_rows, rows, payload, found) ==
    LET new_lead == create_lead([phone |-> payload.caller_phone,
                                 name |-> Some("Unknown Caller")])
        leads_after == IF found = 0 THEN Append(lead_rows, new_lead) ELSE lead_rows
        lead_id == IF found = 0 THEN Len(lead_rows) + 1 ELSE found
        identifier == call_identifier(payload)
        created == create_call(rows,
                       [CallCreate EXCEPT !.lead_id = lead_id,
                                          !.conversation_id = identifier,
                                          !.status = "in_progress"])
        prompted == update_call(created.calls, created.id,
                        [CallUpdate EXCEPT
                            !.system_prompt = Some(build_system_prompt(leads_after[lead_id]))])
    IN  [leads |-> leads_after,
         calls |-> IF created.ok THEN prompted.calls ELSE rows,
         lead_id |-> lead_id, call_id |-> created.id,
         ret |-> IF created.ok THEN "lead" ELSE "500"]

(* Webhook mode (lines 145-397) as a function of the tables: the outcomes  *)
(* it can have, each the tables it leaves, the lead and Call it answered   *)
(* from and the kind of answer.  More than one outcome only where          *)
(* _find_lead_by_phone can return more than one lead.                      *)
personalization(lead_rows, rows, payload) ==
    LET call_record == lookup_call_record(rows, payload)
        candidates == IF payload.caller_phone = None THEN {}
                      ELSE find_lead_by_phone(lead_rows, payload.caller_phone[1])
        unchanged(lead_id, call_id, ret) ==
            [leads |-> lead_rows, calls |-> rows,
             lead_id |-> lead_id, call_id |-> call_id, ret |-> ret]
    IN
    IF call_record = 0 /\ call_identifier(payload) # None
    THEN IF payload.caller_phone # None
         THEN {PersonalizeByPhone(lead_rows, rows, payload, found) :
                  found \in (IF candidates = {} THEN {0} ELSE candidates)}
         ELSE {unchanged(0, 0, "unknown_caller")}
    ELSE IF call_record # 0
    THEN {unchanged(rows[call_record].lead_id, call_record, "call_lead")}
    ELSE {unchanged(0, 0, "defaults")}

PersonalizationWebhook(payload) ==
    /\ \E res \in personalization(leads, calls, payload) :
          /\ Len(res.leads) <= MaxLeads /\ Len(res.calls) <= MaxCalls
          /\ leads' = res.leads
          /\ calls' = res.calls
          /\ last' = CallResult("personalization", res.lead_id, res.call_id, res.ret)
    /\ UNCHANGED pending
    /\ UNCHANGED caches

-----------------------------------------------------------------------------
(* POST /elevenlabs/transcript (lines 406-714).                            *)

(* Mutant of latest: the oldest row.                                       *)
earliest(ids) == IF ids = {} THEN 0 ELSE CHOOSE i \in ids : \A j \in ids : i <= j

(* The newest row (largest id) among ids, 0 if there is none:              *)
(* order_by(Call.created_at.desc()).first().                               *)
latest(ids) == IF ids = {} THEN 0 ELSE CHOOSE i \in ids : \A j \in ids : j <= i

(* Mutant of transcript_fallbacks: the call id step before the phone step. *)
transcript_fallbacks_call_sid_first(rows, data, lead_id) ==
    LET attach == [CallUpdate EXCEPT !.conversation_id = data.conversation_id,
                                     !.transcript = data.transcript,
                                     !.status = Some("completed")]
        latest_call ==
            IF lead_id = 0 THEN 0
            ELSE latest({i \in 1..Len(rows) :
                            rows[i].lead_id = lead_id /\ rows[i].transcript = None})
        by_call_sid ==
            IF data.call_sid = None THEN 0
            ELSE get_call_by_conversation_id(rows, data.call_sid[1])
        recent_call ==
            latest({i \in 1..Len(rows) :
                       rows[i].transcript = None /\ rows[i].status = "in_progress"})
        recent_lead_call ==
            IF lead_id = 0 THEN 0
            ELSE latest({i \in 1..Len(rows) :
                            /\ rows[i].lead_id = lead_id
                            /\ rows[i].transcript = None
                            /\ rows[i].status = "in_progress"})
        target ==
            IF by_call_sid # 0 THEN <<by_call_sid, "updated_and_stored">>
            ELSE IF latest_call # 0 THEN <<latest_call, "updated_by_phone">>
            ELSE IF recent_call # 0 THEN <<recent_call, "updated_recent_call">>
            ELSE IF recent_lead_call # 0 THEN <<recent_lead_call, "updated_by_phone">>
            ELSE <<0, "call_not_found">>
        updated == update_call(rows, target[1], attach)
    IN  IF target[1] = 0 THEN [calls |-> rows, id |-> 0, ret |-> "call_not_found"]
        ELSE IF updated.ok THEN [calls |-> updated.calls, id |-> target[1], ret |-> target[2]]
        ELSE [calls |-> rows, id |-> 0, ret |-> "error"]

(* Mutant of transcript_fallbacks: the recency step without its status     *)
(* filter.                                                                 *)
transcript_fallbacks_any_status(rows, data, lead_id) ==
    LET attach == [CallUpdate EXCEPT !.conversation_id = data.conversation_id,
                                     !.transcript = data.transcript,
                                     !.status = Some("completed")]
        latest_call ==
            IF lead_id = 0 THEN 0
            ELSE latest({i \in 1..Len(rows) :
                            rows[i].lead_id = lead_id /\ rows[i].transcript = None})
        by_call_sid ==
            IF data.call_sid = None THEN 0
            ELSE get_call_by_conversation_id(rows, data.call_sid[1])
        recent_call ==
            latest({i \in 1..Len(rows) : rows[i].transcript = None})
        recent_lead_call ==
            IF lead_id = 0 THEN 0
            ELSE latest({i \in 1..Len(rows) :
                            /\ rows[i].lead_id = lead_id
                            /\ rows[i].transcript = None
                            /\ rows[i].status = "in_progress"})
        target ==
            IF latest_call # 0 THEN <<latest_call, "updated_by_phone">>
            ELSE IF by_call_sid # 0 THEN <<by_call_sid, "updated_and_stored">>
            ELSE IF recent_call # 0 THEN <<recent_call, "updated_recent_call">>
            ELSE IF recent_lead_call # 0 THEN <<recent_lead_call, "updated_by_phone">>
            ELSE <<0, "call_not_found">>
        updated == update_call(rows, target[1], attach)
    IN  IF target[1] = 0 THEN [calls |-> rows, id |-> 0, ret |-> "call_not_found"]
        ELSE IF updated.ok THEN [calls |-> updated.calls, id |-> target[1], ret |-> target[2]]
        ELSE [calls |-> rows, id |-> 0, ret |-> "error"]

(* Mutant of transcript_fallbacks: the call-id step attaches the           *)
(* transcript and leaves the Call under the call id.                       *)
transcript_fallbacks_keep_call_sid(rows, data, lead_id) ==
    LET attach == [CallUpdate EXCEPT !.conversation_id = data.conversation_id,
                                     !.transcript = data.transcript,
                                     !.status = Some("completed")]
        latest_call ==
            IF lead_id = 0 THEN 0
            ELSE latest({i \in 1..Len(rows) :
                            rows[i].lead_id = lead_id /\ rows[i].transcript = None})
        by_call_sid ==
            IF data.call_sid = None THEN 0
            ELSE get_call_by_conversation_id(rows, data.call_sid[1])
        recent_call ==
            latest({i \in 1..Len(rows) :
                       rows[i].transcript = None /\ rows[i].status = "in_progress"})
        recent_lead_call ==
            IF lead_id = 0 THEN 0
            ELSE latest({i \in 1..Len(rows) :
                            /\ rows[i].lead_id = lead_id
                            /\ rows[i].transcript = None
                            /\ rows[i].status = "in_progress"})
        target ==
            IF latest_call # 0 THEN <<latest_call, "updated_by_phone">>
            ELSE IF by_call_sid # 0 THEN <<by_call_sid, "updated_and_stored">>
            ELSE IF recent_call # 0 THEN <<recent_call, "updated_recent_call">>
            ELSE IF recent_lead_call # 0 THEN <<recent_lead_call, "updated_by_phone">>
            ELSE <<0, "call_not_found">>
        updated ==
            update_call(rows, target[1],
                        IF target[2] = "updated_and_stored"
                        THEN [attach EXCEPT !.conversation_id = None] ELSE attach)
    IN  IF target[1] = 0 THEN [calls |-> rows, id |-> 0, ret |-> "call_not_found"]
        ELSE IF updated.ok THEN [calls |-> updated.calls, id |-> target[1], ret |-> target[2]]
        ELSE [calls |-> rows, id |-> 0, ret |-> "error"]

(* Mutant of transcript_fallbacks: the recency step scoped to the lead the *)
(* phone resolved.                                                         *)
transcript_fallbacks_lead_scoped(rows, data, lead_id) ==
    LET attach == [CallUpdate EXCEPT !.conversation_id = data.conversation_id,
                                     !.transcript = data.transcript,
                                     !.status = Some("completed")]
        latest_call ==
            IF lead_id = 0 THEN 0
            ELSE latest({i \in 1..Len(rows) :
                            rows[i].lead_id = lead_id /\ rows[i].transcript = None})
        by_call_sid ==
            IF data.call_sid = None THEN 0
            ELSE get_call_by_conversation_id(rows, data.call_sid[1])
        recent_call ==
            latest({i \in 1..Len(rows) :
                       rows[i].transcript = None /\ rows[i].status = "in_progress"})
        recent_lead_call ==
            IF lead_id = 0 THEN 0
            ELSE latest({i \in 1..Len(rows) :
                            /\ rows[i].lead_id = lead_id
                            /\ rows[i].transcript = None
                            /\ rows[i].status = "in_progress"})
        target ==
            IF latest_call # 0 THEN <<latest_call, "updated_by_phone">>
            ELSE IF by_call_sid # 0 THEN <<by_call_sid, "updated_and_stored">>
            ELSE IF recent_lead_call # 0 THEN <<recent_lead_call, "updated_recent_call">>
            ELSE IF recent_lead_call # 0 THEN <<recent_lead_call, "updated_by_phone">>
            ELSE <<0, "call_not_found">>
        updated == update_call(rows, target[1], attach)
    IN  IF target[1] = 0 THEN [calls |-> rows, id |-> 0, ret |-> "call_not_found"]
        ELSE IF updated.ok THEN [calls |-> updated.calls, id |-> target[1], ret |-> target[2]]
        ELSE [calls |-> rows, id |-> 0, ret |-> "error"]

(* The cascade after store_transcript found no Call (lines 580-708);       *)
(* `lead_id` is the lead _find_lead_by_phone returned, 0 for None.         *)
transcript_fallbacks(rows, data, lead_id) ==
    LET attach == [CallUpdate EXCEPT !.conversation_id = data.conversation_id,
                                     !.transcript = data.transcript,
                                     !.status = Some("completed")]
        latest_call ==
            IF lead_id = 0 THEN 0
            ELSE latest({i \in 1..Len(rows) :
                            rows[i].lead_id = lead_id /\ rows[i].transcript = None})
        by_call_sid ==
            IF data.call_sid = None THEN 0
            ELSE get_call_by_conversation_id(rows, data.call_sid[1])
        recent_call ==
            latest({i \in 1..Len(rows) :
                       rows[i].transcript = None /\ rows[i].status = "in_progress"})
        recent_lead_call ==
            IF lead_id = 0 THEN 0
            ELSE latest({i \in 1..Len(rows) :
                            /\ rows[i].lead_id = lead_id
                            /\ rows[i].transcript = None
                            /\ rows[i].status = "in_progress"})
        target ==
            IF latest_call # 0 THEN <<latest_call, "updated_by_phone">>
            ELSE IF by_call_sid # 0 THEN <<by_call_sid, "updated_and_stored">>
            ELSE IF recent_call # 0 THEN <<recent_call, "updated_recent_call">>
            ELSE IF recent_lead_call # 0 THEN <<recent_lead_call, "updated_by_phone">>
            ELSE <<0, "call_not_found">>
        updated == update_call(rows, target[1], attach)
    IN  IF target[1] = 0 THEN [calls |-> rows, id |-> 0, ret |-> "call_not_found"]
        ELSE IF updated.ok THEN [calls |-> updated.calls, id |-> target[1], ret |-> target[2]]
        ELSE [calls |-> rows, id |-> 0, ret |-> "error"]

(* The body of transcript_webhook from the parsed payload on (lines        *)
(* 492-712) as a function of the tables: the outcomes it can have, each    *)
(* the calls table it leaves, the Call it wrote (0: none) and the status   *)
(* it answers.  More than one outcome only where _find_lead_by_phone can   *)
(* return more than one lead.                                              *)
transcript_webhook(lead_rows, rows, data) ==
    LET candidates == IF data.caller_phone = None THEN {}
                      ELSE find_lead_by_phone(lead_rows, data.caller_phone[1])
    IN
    IF data.transcript = None \/ data.conversation_id = None
    THEN {[calls |-> rows, id |-> 0, ret |-> "ignored"]}
    ELSE LET direct == store_transcript(rows, data.conversation_id[1],
                                        data.transcript[1])
         IN  IF direct.ret
             THEN {[calls |-> direct.calls, id |-> direct.id, ret |-> "ok"]}
             ELSE {transcript_fallbacks(rows, data, lead_id) :
                      lead_id \in (IF candidates = {} THEN {0} ELSE candidates)}

TranscriptWebhook(data) ==
    /\ \E res \in transcript_webhook(leads, calls, data) :
          /\ calls' = res.calls
          /\ last' = CallResult("transcript_webhook",
                                IF res.id = 0 THEN 0 ELSE calls[res.id].lead_id,
                                res.id, res.ret)
    /\ UNCHANGED <<leads, pending>>
    /\ UNCHANGED caches

-----------------------------------------------------------------------------
(* The whole service on an empty store.                                    *)

Init ==
    /\ leads = <<>>
    /\ calls = <<>>
    /\ pending = {}
    /\ last = Result("startup", 0, "", FALSE)
    /\ CachesConstructed

Next ==
    \/ \E lead_data \in ApiLeadInputs : ApiCreateLead(lead_data)
    \/ \E lead_id \in 1..MaxLeads, phone_override \in {None, Some(PhoneNational)},
          use_elevenlabs_telephony \in BOOLEAN :
            InitiateCall(lead_id, phone_override, use_elevenlabs_telephony)
    \/ \E p \in pending, outcome \in ProviderOutcomes : ProviderResponse(p, outcome)
    \/ \E lead_id \in 1..MaxLeads : CheckLeadPhase(lead_id)
    \/ \E lead_id_param \in 1..MaxLeads : PersonalizationLeadId(lead_id_param)
    \/ \E payload \in PersonalizationInputs : PersonalizationWebhook(payload)
    \/ \E data \in TranscriptInputs : TranscriptWebhook(data)
    \/ \E body \in StoreAgentUpdateInputs : AgentUpdate(body)
    \/ \E lead_id \in 1..MaxLeads : Advance(lead_id)

Spec == Init /\ [][Next]_vars

-----------------------------------------------------------------------------
(* The call side of the service on an empty store: leads with two          *)
(* different phone numbers, transcript events with two texts and either    *)
(* phone.  Leads are created and called, never updated, so every lead      *)
(* stays in CONFIRM_INFO.                                                  *)

(* A number that differs from PhoneIntl within its last 10 digits.         *)
PhoneOther == <<"+", "4", "4", "7", "7", "0", "0", "9", "0", "0", "9", "9", "9">>

CallsLeadInputs ==
    {FullLeadCreate, [FullLeadCreate EXCEPT !.name = Some("Bob"),
                                            !.phone = Some(PhoneOther)]}

TranscriptTexts == {"t1", "t2"}

CallsTranscriptInputs ==
    [conversation_id : Optional(ConvIds),
     transcript : Optional(TranscriptTexts),
     caller_phone : Optional({PhoneNational, PhoneOther}),
     call_sid : Optional(CallSids)]

NextCalls ==
    \/ \E lead_data \in CallsLeadInputs : ApiCreateLead(lead_data)
    \/ \E lead_id \in 1..MaxLeads : InitiateCall(lead_id, None, TRUE)
    \/ \E p \in pending, outcome \in ProviderOutcomes : ProviderResponse(p, outcome)
    \/ \E payload \in PersonalizationInputs : PersonalizationWebhook(payload)
    \/ \E data \in CallsTranscriptInputs : TranscriptWebhook(data)

SpecCalls == Init /\ [][NextCalls]_vars

-----------------------------------------------------------------------------
(* The phone lookup on its own: stores of up to two leads whose phones are *)
(* written in different ways, looked up by each way of writing.            *)

(* PhoneIntl with spaces and brackets.                                     *)
PhoneSpaced ==
    <<"+", "4", "4", " ", "(", "0", ")", "7", "7", "0", "0", " ", "9", "0", "0", "1", "2", "3">>

(* The last 10 digits of PhoneIntl behind another country code.            *)
PhoneForeign == <<"+", "1", "7", "7", "0", "0", "9", "0", "0", "1", "2", "3">>

(* Fewer than 10 digits: the end of PhoneIntl.                             *)
PhoneShort == <<"9", "0", "0", "1", "2", "3">>

PhoneBook ==
    {PhoneIntl, PhoneNational, PhoneSpaced, PhoneForeign, PhoneShort, PhoneOther}

LeadWithPhone(phone) == create_lead([name |-> Some("Alice"), phone |-> phone])

(* CallService._find_lead_by_phone as a request: the lead returned, 0 for  *)
(* None; nothing is written.                                               *)
FindLeadByPhone(phone_number) ==
    /\ \E found \in (IF find_lead_by_phone(leads, phone_number) = {} THEN {0}
                      ELSE find_lead_by_phone(leads, phone_number)) :
          last' = [Result("find_lead_by_phone", found, "", FALSE)
                      EXCEPT !.ret = phone_number]
    /\ UNCHANGED <<leads, calls, pending>>
    /\ UNCHANGED caches

InitPhone ==
    /\ leads \in {<<>>}
          \cup {<<LeadWithPhone(p)>> : p \in Optional(PhoneBook)}
          \cup {<<LeadWithPhone(p), LeadWithPhone(q)>> :
                   p \in Optional(PhoneBook), q \in Optional(PhoneBook)}
    /\ calls = <<>>
    /\ pending = {}
    /\ last = Result("startup", 0, "", FALSE)
    /\ CachesConstructed

NextPhone == \E phone_number \in PhoneBook : FindLeadByPhone(phone_number)

SpecPhone == InitPhone /\ [][NextPhone]_vars

-----------------------------------------------------------------------------
(* CallService.update_call on its own: tables as create_call leaves them,  *)
(* then any sequence of updates.                                           *)

(* CallCreate as the handlers build it: for one lead, with or without a    *)
(* conversation id, initiated or in_progress.                              *)
CallCreateInputs ==
    {[CallCreate EXCEPT !.lead_id = 1, !.conversation_id = k, !.status = st] :
        k \in Optional(ConvIds), st \in {"initiated", "in_progress"}}

(* CallUpdate patches: every combination of a field left out or given,     *)
(* with the falsy values False and 0 that exclude_none keeps.              *)
CallUpdateInputs ==
    {[conversation_id |-> k, transcript |-> t, system_prompt |-> p,
      analyzed |-> a, status |-> st, duration_seconds |-> d] :
        k \in Optional(ConvIds), t \in Optional(Transcripts),
        p \in Optional({build_system_prompt(Lead)}),
        a \in Optional(BOOLEAN), st \in Optional({"completed"}),
        d \in Optional({0})}

(* The patches the updates below apply: those of at most two fields that   *)
(* leave system_prompt.                                                    *)
UpdatePatches ==
    {u \in CallUpdateInputs :
        /\ u.system_prompt = None
        /\ Cardinality({f \in DOMAIN u : u[f] # None}) <= 2}

(* update_call(call_id, call_update): None for an unknown id, the Call     *)
(* when the commit succeeded, IntegrityError when it did not.              *)
UpdateCall(call_id, call_update) ==
    LET res == update_call(calls, call_id, call_update) IN
    /\ calls' = res.calls
    /\ last' = CallResult("update_call",
                          IF call_id \in 1..Len(calls) THEN calls[call_id].lead_id ELSE 0,
                          call_id,
                          IF call_id \notin 1..Len(calls) THEN "None"
                          ELSE IF res.ok THEN "call" ELSE "IntegrityError")
    /\ UNCHANGED <<leads, pending>>
    /\ UNCHANGED caches

InitUpdate ==
    /\ leads = <<create_lead(FullLeadCreate)>>
    /\ calls \in {<<>>}
          \cup {create_call(<<>>, a).calls : a \in CallCreateInputs}
          \cup {create_call(create_call(<<>>, a).calls, b).calls :
                   a \in CallCreateInputs, b \in CallCreateInputs}
    /\ pending = {}
    /\ last = Result("startup", 0, "", FALSE)
    /\ CachesConstructed

NextUpdate ==
    \E call_id \in 1..(MaxCalls + 1), call_update \in UpdatePatches :
        UpdateCall(call_id, call_update)

SpecUpdate == InitUpdate /\ [][NextUpdate]_vars

-----------------------------------------------------------------------------
(* Properties of the phase engine.                                         *)

Confirmed(lead, f) ==
    CASE f = "name" -> lead.name_confirmed
      [] f = "budget" -> lead.budget_confirmed
      [] f = "move_in_date" -> lead.move_in_date_confirmed
      [] f = "occupation" -> lead.occupation_confirmed
      [] f = "yearly_wage" -> lead.yearly_wage_confirmed
      [] f = "contract_length" -> lead.contract_length_confirmed

AllRequiredSetAndConfirmed(lead) ==
    \A f \in RequiredFields : lead[f] # None /\ Confirmed(lead, f)

LeadIds == 1..Len(leads)

(* C2, evaluate: for every stored lead in CONFIRM_INFO, can_progress with  *)
(* next_phase BOOKING_VIEWING holds exactly when the five required fields  *)
(* are set and confirmed, which is exactly when missing_fields and         *)
(* unconfirmed_fields are both empty.                                      *)
C2_Evaluate ==
    \A i \in LeadIds :
        leads[i].phase = "CONFIRM_INFO" =>
            LET info == check_phase_requirements(leads[i]) IN
            /\ (info.can_progress /\ info.next_phase = Some("BOOKING_VIEWING"))
                    <=> AllRequiredSetAndConfirmed(leads[i])
            /\ (info.missing_fields = <<>> /\ info.unconfirmed_fields = <<>>)
                    <=> AllRequiredSetAndConfirmed(leads[i])
            /\ info.can_progress <=> info.next_phase # None

(* C2, advance: a step leaves a CONFIRM_INFO lead in BOOKING_VIEWING       *)
(* exactly when the data it leaves has the five required fields set and    *)
(* confirmed, and a lead that has left CONFIRM_INFO never re-enters it, so *)
(* the transition occurs exactly once.                                     *)
C2_Step ==
    \A i \in LeadIds :
        /\ leads[i].phase = "CONFIRM_INFO" =>
              /\ leads'[i].phase \in {"CONFIRM_INFO", "BOOKING_VIEWING"}
              /\ leads'[i].phase = "BOOKING_VIEWING"
                    <=> AllRequiredSetAndConfirmed(leads'[i])
        /\ leads[i].phase # "CONFIRM_INFO" => leads'[i].phase # "CONFIRM_INFO"

(* C2: a CONFIRM_INFO lead can progress, to BOOKING_VIEWING, iff its five  *)
(* required fields are set and confirmed; advance then performs that       *)
(* transition, and it occurs exactly once.                                 *)
C2_ConfirmInfoRule == []C2_Evaluate /\ [][C2_Step]_vars

(* C2 witness: a batch update confirmed the last required field and its    *)
(* advance moved the lead to BOOKING_VIEWING.                              *)
C2_Witness ==
    /\ last.op = "process_agent_update" /\ last.advance_called
    /\ leads[1].phase = "BOOKING_VIEWING"
    /\ AllRequiredSetAndConfirmed(leads[1])

(* C3 as claimed: an advance call that directly follows an advance call on *)
(* the same lead (the one ending a batch update, or a direct one) returns  *)
(* false and leaves the phase unchanged.                                   *)
C3_AdvanceIdempotent ==
    [][\A i \in LeadIds :
          (/\ last.advance_called /\ last.lead_id = i
           /\ last'.op = "update_lead_phase" /\ last'.lead_id = i)
          => (last'.ret = "false" /\ leads'[i].phase = leads[i].phase)]_vars

(* C4, evaluate: a stored lead in BOOKING_VIEWING can progress, to         *)
(* VIEWING_BOOKED, exactly when viewing_date and viewing_time are set.     *)
C4_Evaluate ==
    \A i \in LeadIds :
        leads[i].phase = "BOOKING_VIEWING" =>
            LET info == check_phase_requirements(leads[i]) IN
            (info.can_progress /\ info.next_phase = Some("VIEWING_BOOKED"))
                <=> (leads[i].viewing_date # None /\ leads[i].viewing_time # None)

(* C4, advance: on a BOOKING_VIEWING lead with viewing_date or             *)
(* viewing_time unset, update_lead_phase returns false and changes nothing.*)
C4_Step ==
    \A i \in LeadIds :
        (/\ leads[i].phase = "BOOKING_VIEWING"
         /\ (leads[i].viewing_date = None \/ leads[i].viewing_time = None)
         /\ last'.op = "update_lead_phase" /\ last'.lead_id = i)
        => (last'.ret = "false" /\ leads' = leads)

(* C4: BOOKING_VIEWING progresses to VIEWING_BOOKED iff both viewing_date  *)
(* and viewing_time are set; otherwise advance returns false and leaves    *)
(* the lead unchanged.                                                     *)
C4_BookingViewingRule == []C4_Evaluate /\ [][C4_Step]_vars

(* C4 witness: advance was called on a BOOKING_VIEWING lead that has a     *)
(* viewing date but no viewing time, and returned false.                   *)
C4_Witness ==
    /\ last.op = "update_lead_phase" /\ last.ret = "false"
    /\ leads[1].phase = "BOOKING_VIEWING"
    /\ leads[1].viewing_date # None /\ leads[1].viewing_time = None

QualificationFields == RequiredFields \cup {"contract_length"}

confirm_flag(f) ==
    CASE f = "name" -> "confirm_name"
      [] f = "budget" -> "confirm_budget"
      [] f = "move_in_date" -> "confirm_move_in_date"
      [] f = "occupation" -> "confirm_occupation"
      [] f = "yearly_wage" -> "confirm_yearly_wage"
      [] f = "contract_length" -> "confirm_contract_length"

(* The contract C5 states for one update body applied to lead `old`.       *)
C5_Contract(old, body, new) ==
    /\ \A f \in QualificationFields :
          IF body[f] # None
          THEN new[f] = body[f] /\ Confirmed(new, f)
          ELSE IF body[confirm_flag(f)] /\ old[f] # None
          THEN new[f] = old[f] /\ Confirmed(new, f)
          ELSE new[f] = old[f] /\ Confirmed(new, f) = Confirmed(old, f)
    /\ \A v \in {"viewing_date", "viewing_time", "viewing_notes"} :
          new[v] = IF body[v] # None THEN body[v] ELSE old[v]

(* C5 as claimed: after a batch update every qualification field follows   *)
(* "new value supplied: stored and confirmed; else confirm flag and        *)
(* existing value: confirmed; else unchanged", and viewing date, time and  *)
(* notes are written whenever supplied.                                    *)
C5_BatchUpdateContract ==
    [][\A body \in AgentUpdateInputs :
          (AgentUpdate(body) /\ body.lead_id \in LeadIds)
          => C5_Contract(leads[body.lead_id], body, leads'[body.lead_id])]_vars

-----------------------------------------------------------------------------
(* Properties of the whole service.                                        *)

(* C1, evaluate: for every stored lead, a proposed next_phase is the       *)
(* immediate successor of the lead's phase and comes with can_progress;    *)
(* no lead is ever in COMPLETED.                                           *)
C1_Evaluate ==
    \A i \in LeadIds :
        LET info == check_phase_requirements(leads[i]) IN
        /\ info.can_progress <=> info.next_phase # None
        /\ info.next_phase # None =>
              \/ leads[i].phase = "CONFIRM_INFO" /\ info.next_phase = Some("BOOKING_VIEWING")
              \/ leads[i].phase = "BOOKING_VIEWING" /\ info.next_phase = Some("VIEWING_BOOKED")
        /\ leads[i].phase # "COMPLETED"

(* C1, steps: no lead disappears, and a step that changes a lead's phase   *)
(* moves it to the immediate successor, with the rule of the phase it      *)
(* leaves holding on the data the step leaves.                             *)
C1_Step ==
    /\ Len(leads') >= Len(leads)
    /\ \A i \in LeadIds :
          leads'[i].phase # leads[i].phase =>
              \/ /\ leads[i].phase = "CONFIRM_INFO"
                 /\ leads'[i].phase = "BOOKING_VIEWING"
                 /\ AllRequiredSetAndConfirmed(leads'[i])
              \/ /\ leads[i].phase = "BOOKING_VIEWING"
                 /\ leads'[i].phase = "VIEWING_BOOKED"
                 /\ leads'[i].viewing_date # None /\ leads'[i].viewing_time # None

(* C1: over lead creation, evaluate, advance, batch updates, call          *)
(* initiation and the personalization and transcript webhooks, every phase *)
(* change is CONFIRM_INFO to BOOKING_VIEWING or BOOKING_VIEWING to         *)
(* VIEWING_BOOKED under the rule of the phase left; evaluate proposes only *)
(* the immediate successor; the phase never moves backward, never skips,   *)
(* never leaves VIEWING_BOOKED and never becomes COMPLETED.                *)
C1_PhaseProgression == []C1_Evaluate /\ [][C1_Step]_vars

(* C1 witness: a lead that reached VIEWING_BOOKED by an advance call while *)
(* one of its calls had been completed by the transcript webhook.          *)
C1_Witness ==
    /\ last.op = "update_lead_phase" /\ last.ret = "true"
    /\ leads[last.lead_id].phase = "VIEWING_BOOKED"
    /\ \E c \in 1..Len(calls) :
          calls[c].lead_id = last.lead_id /\ calls[c].status = "completed"

CallIds == 1..Len(calls)

(* The key an event offers is already the correlation key of a Call.       *)
KeyInUse(key) == key # None /\ \E c \in CallIds : calls[c].conversation_id = key

KeysUnchanged ==
    /\ Len(calls') = Len(calls)
    /\ \A c \in CallIds : calls'[c].conversation_id = calls[c].conversation_id

(* C6, states: no two Calls hold the same non-null correlation key.        *)
C6_Inv ==
    \A c, d \in CallIds :
        (c # d /\ calls[c].conversation_id # None)
            => calls[c].conversation_id # calls[d].conversation_id

(* C6, steps: an initiation response whose conversation id is the key of   *)
(* another Call, and a personalization event that would create a Call      *)
(* under a key already in use, leave every Call's key as it was and create *)
(* no Call.                                                                *)
C6_Step ==
    /\ \A p \in pending, outcome \in ProviderOutcomes :
          (/\ \E c \in CallIds \ {p.call_id} :
                 outcome.conversation_id # None
                 /\ calls[c].conversation_id = outcome.conversation_id
           /\ ProviderResponse(p, outcome))
          => KeysUnchanged
    /\ \A payload \in PersonalizationInputs :
          (/\ last'.op = "personalization"
           /\ KeyInUse(call_identifier(payload))
           /\ PersonalizationWebhook(payload))
          => KeysUnchanged

(* C6: under any interleaving of call initiation, personalization and      *)
(* transcript webhooks no two Calls share a non-null correlation key, and  *)
(* an operation that would give a second Call a key already in use does    *)
(* not take effect.                                                        *)
C6_UniqueCorrelationKey == []C6_Inv /\ [][C6_Step]_vars

(* C6 witness: a personalization event tried to create a Call under a      *)
(* telephony call id that a Call already held; the creation was rejected   *)
(* and that Call is still the only one with the key.                       *)
C6_Witness ==
    /\ last.op = "personalization" /\ last.ret = "500" /\ last.lead_id # 0
    /\ Cardinality({c \in CallIds :
                       calls[c].conversation_id \in {Some(s) : s \in CallSids}}) = 1

(* C7 as claimed: every status change of a Call is initiated to            *)
(* in_progress, in_progress to completed, or initiated or in_progress to   *)
(* failed; completed and failed are never left.                            *)
C7_StatusMachine ==
    [][\A c \in CallIds :
          calls'[c].status # calls[c].status =>
              <<calls[c].status, calls'[c].status>> \in
                  {<<"initiated", "in_progress">>, <<"in_progress", "completed">>,
                   <<"initiated", "failed">>, <<"in_progress", "failed">>}]_vars

(* Last-10-digit matching stated on its own: the digits of a phone, and   *)
(* the stored leads whose phone agrees with it on the last 10 digits.      *)
DigitsOf(phone) == SelectSeq(phone, LAMBDA ch : ch \in Digits)

SameLast10(p, q) ==
    LET a == DigitsOf(p)
        b == DigitsOf(q)
    IN  /\ Len(a) >= 10 /\ Len(b) >= 10
        /\ \A k \in 0..9 : a[Len(a) - k] = b[Len(b) - k]

LeadsMatching(phone) ==
    {i \in LeadIds : leads[i].phone # None /\ SameLast10(phone, leads[i].phone[1])}

(* The event's conversation id is the correlation key of a Call.           *)
MatchesCall(payload) == KeyInUse(payload.conversation_id)

(* C8, steps: a personalization event whose conversation id is the key of  *)
(* a Call is answered from that Call's lead and writes nothing.            *)
C8_Step ==
    \A payload \in PersonalizationInputs :
        (/\ last'.op = "personalization"
         /\ MatchesCall(payload)
         /\ PersonalizationWebhook(payload))
        => /\ last'.ret = "call_lead"
           /\ \E c \in CallIds :
                 /\ calls[c].conversation_id = payload.conversation_id
                 /\ last'.call_id = c
                 /\ last'.lead_id = calls[c].lead_id
           /\ leads' = leads /\ calls' = calls

(* C8: when a personalization event carries a conversation id that is the  *)
(* correlation key of an existing Call, the match is authoritative: the    *)
(* response is built from that Call's lead, no later cascade step runs,    *)
(* and no Lead or Call is created or modified.                             *)
C8_AuthoritativeMatch == [][C8_Step]_vars

(* C8 witness: an event that also carried a caller phone and a telephony   *)
(* call id was answered from the lead of the Call its conversation id      *)
(* names, a lead other than the first one.                                 *)
C8_Witness ==
    /\ last.op = "personalization" /\ last.ret = "call_lead"
    /\ calls[last.call_id].lead_id = last.lead_id
    /\ calls[last.call_id].conversation_id \in {Some(c) : c \in ConvIds}
    /\ last.lead_id = 2

(* C9 as claimed: a personalization event that matches no Call by          *)
(* conversation id and carries a caller phone is attributed to a Lead      *)
(* whose stored phone has the same last 10 digits or, when there is none,  *)
(* to a new Lead with the caller phone and the placeholder name, whatever  *)
(* other identifiers the event carries.                                    *)
C9_PhoneAttribution ==
    [][\A payload \in PersonalizationInputs :
          (/\ last'.op = "personalization"
           /\ ~MatchesCall(payload)
           /\ payload.caller_phone # None
           /\ PersonalizationWebhook(payload))
          => IF LeadsMatching(payload.caller_phone[1]) # {}
             THEN /\ last'.lead_id \in LeadsMatching(payload.caller_phone[1])
                  /\ leads' = leads
             ELSE /\ Len(leads') = Len(leads) + 1
                  /\ last'.lead_id = Len(leads')
                  /\ leads'[Len(leads')].phone = payload.caller_phone
                  /\ leads'[Len(leads')].name = Some("Unknown Caller")]_vars

(* C10, steps: when a personalization event resolved or created a Lead and *)
(* no Call held the event's identifier, one Call was added: it belongs to  *)
(* that Lead, is in_progress, and its key is the conversation id if the    *)
(* event has one, else the telephony call id.                              *)
C10_Step ==
    \A payload \in PersonalizationInputs :
        (/\ last'.op = "personalization" /\ last'.lead_id # 0
         /\ ~KeyInUse(IF payload.conversation_id # None
                      THEN payload.conversation_id ELSE payload.call_sid)
         /\ PersonalizationWebhook(payload))
        => /\ Len(calls') = Len(calls) + 1
           /\ \A c \in CallIds : calls'[c] = calls[c]
           /\ calls'[Len(calls')].lead_id = last'.lead_id
           /\ calls'[Len(calls')].status = "in_progress"
           /\ calls'[Len(calls')].conversation_id =
                 IF payload.conversation_id # None
                 THEN payload.conversation_id ELSE payload.call_sid

(* C10: once a personalization event has resolved or created a Lead and no *)
(* Call exists for the conversation, exactly one Call is created, for that *)
(* Lead, in status in_progress, keyed by the conversation id if present,   *)
(* else by the telephony call id.                                          *)
C10_InboundCallCreated == [][C10_Step]_vars

(* C10 witness: an event without conversation id created the Call of a     *)
(* newly created lead under its telephony call id.                         *)
C10_Witness ==
    /\ last.op = "personalization" /\ last.ret = "lead"
    /\ last.call_id = Len(calls)
    /\ calls[last.call_id].status = "in_progress"
    /\ calls[last.call_id].conversation_id \in {Some(s) : s \in CallSids}
    /\ leads[last.lead_id].name = Some("Unknown Caller")

-----------------------------------------------------------------------------
(* Properties of the webhooks on records they cannot attribute.            *)

(* The personalization event that carries no caller phone, no conversation *)
(* id and no telephony call id.                                            *)
AnonymousEvent ==
    [conversation_id |-> None, call_sid |-> None, caller_phone |-> None]

CorrelationKeys == ConvIds \cup CallSids

(* The rows as attach_transcript must leave them: the Call with the key    *)
(* holds the text and is completed, every other Call is as before.         *)
Attached(rows, key, text) ==
    [c \in 1..Len(rows) |->
        IF rows[c].conversation_id = Some(key)
        THEN [rows[c] EXCEPT !.transcript = Some(text), !.status = "completed"]
        ELSE rows[c]]

(* C12, the function: on every reachable table, for every key and text.    *)
C12_Function ==
    \A key \in CorrelationKeys, text \in TranscriptTexts :
        LET res == store_transcript(calls, key, text) IN
        IF KeyInUse(Some(key))
        THEN res.ret = TRUE /\ res.calls = Attached(calls, key, text)
        ELSE res.ret = FALSE /\ res.calls = calls

(* What a handler that only writes Calls leaves alone.                     *)
TranscriptFrame ==
    last'.op = "transcript_webhook"
        => leads' = leads /\ pending' = pending /\ Len(calls') = Len(calls)

(* C12, the handler: an event with a transcript whose conversation id is   *)
(* the key of a Call has one outcome: attached by step 1, answered "ok".   *)
C12_Handler ==
    \A data \in CallsTranscriptInputs :
        (data.transcript # None /\ KeyInUse(data.conversation_id))
        => \A res \in transcript_webhook(leads, calls, data) :
              /\ res.ret = "ok"
              /\ res.calls = Attached(calls, data.conversation_id[1],
                                      data.transcript[1])
              /\ calls[res.id].conversation_id = data.conversation_id

(* C12: attach_transcript with a correlation key sets the transcript and   *)
(* status completed on the Call that has the key and returns true, or      *)
(* returns false and changes no Call when there is none; a transcript      *)
(* event whose conversation id is known is attached this way and no        *)
(* fallback step runs.                                                     *)
C12_AttachTranscript ==
    [](C12_Function /\ C12_Handler) /\ [][TranscriptFrame]_vars

(* C12 witness: step 1 stored a transcript on the Call of its conversation *)
(* id while the same lead had a newer Call still without transcript, the   *)
(* one the phone step would have taken.                                    *)
C12_Witness ==
    /\ last.op = "transcript_webhook" /\ last.ret = "ok"
    /\ calls[last.call_id].transcript # None
    /\ calls[last.call_id].status = "completed"
    /\ \E c \in CallIds :
          /\ c > last.call_id
          /\ calls[c].lead_id = last.lead_id
          /\ calls[c].transcript = None

(* The Calls of a lead that have no transcript, and the newest of a        *)
(* non-empty set of Calls.                                                 *)
NullCalls(l) == {c \in CallIds : calls[c].lead_id = l /\ calls[c].transcript = None}

Newest(S) == CHOOSE c \in S : \A d \in S : d <= c

(* The outcome of a fallback step that attaches the event to Call c and    *)
(* answers ret: c gets the event's conversation id as key, its transcript  *)
(* and status completed; every other Call is as before.                    *)
FallbackAttached(data, c, ret) ==
    [calls |-> [calls EXCEPT ![c] = [@ EXCEPT !.conversation_id = data.conversation_id,
                                             !.transcript = data.transcript,
                                             !.status = "completed"]],
     id |-> c, ret |-> ret]

(* A transcript event that step 1 cannot place.                            *)
Unplaced(data) ==
    /\ data.transcript # None /\ data.conversation_id # None
    /\ ~KeyInUse(data.conversation_id)

(* C13: when a transcript event's conversation id matches no Call and its  *)
(* caller phone matches a Lead on the last 10 digits, the transcript goes  *)
(* to that Lead's most recent Call with a null transcript: that Call gets  *)
(* the conversation id as key, the transcript and status completed, and no *)
(* other Call changes.  Each matching Lead that has such a Call is a       *)
(* possible outcome, and when every matching Lead has one there is no      *)
(* other outcome.                                                          *)
C13_PhoneFallback ==
    \A data \in CallsTranscriptInputs :
        (Unplaced(data) /\ data.caller_phone # None)
        => LET matching == LeadsMatching(data.caller_phone[1])
               with_call == {l \in matching : NullCalls(l) # {}}
               expected == {FallbackAttached(data, Newest(NullCalls(l)),
                                             "updated_by_phone") : l \in with_call}
               outcomes == transcript_webhook(leads, calls, data)
           IN  /\ expected \subseteq outcomes
               /\ (matching # {} /\ with_call = matching) => outcomes = expected

(* C13 witness: the phone step attached a transcript to the newer of two   *)
(* transcript-less Calls of the lead; the older one is untouched.          *)
C13_Witness ==
    /\ last.op = "transcript_webhook" /\ last.ret = "updated_by_phone"
    /\ last.call_id = 2 /\ calls[1].lead_id = last.lead_id
    /\ calls[1].transcript = None /\ calls[1].status # "completed"
    /\ calls[2].transcript # None /\ calls[2].status = "completed"
    /\ calls[2].conversation_id \in {Some(k) : k \in ConvIds}

(* The Call that holds a key; the Calls in_progress without transcript.    *)
CallWithKey(key) == CHOOSE c \in CallIds : calls[c].conversation_id = key

InFlight == {c \in CallIds : calls[c].transcript = None /\ calls[c].status = "in_progress"}

(* The leads the phone step can resolve for an event; 0 stands for none.   *)
Resolved(data) ==
    IF data.caller_phone = None \/ LeadsMatching(data.caller_phone[1]) = {}
    THEN {0} ELSE LeadsMatching(data.caller_phone[1])

(* The one outcome the ordered cascade allows once the phone step has      *)
(* resolved lead l: the first step that finds a Call attaches to it.       *)
FirstMatch(data, l) ==
    IF KeyInUse(data.conversation_id)
    THEN [calls |-> Attached(calls, data.conversation_id[1], data.transcript[1]),
          id |-> CallWithKey(data.conversation_id), ret |-> "ok"]
    ELSE IF l # 0 /\ NullCalls(l) # {}
    THEN FallbackAttached(data, Newest(NullCalls(l)), "updated_by_phone")
    ELSE IF KeyInUse(data.call_sid)
    THEN FallbackAttached(data, CallWithKey(data.call_sid), "updated_and_stored")
    ELSE IF InFlight # {}
    THEN FallbackAttached(data, Newest(InFlight), "updated_recent_call")
    ELSE [calls |-> calls, id |-> 0, ret |-> "call_not_found"]

(* C14, the handler as a function of the tables.                           *)
C14_Handler ==
    \A data \in CallsTranscriptInputs :
        LET outcomes == transcript_webhook(leads, calls, data) IN
        /\ (data.transcript # None /\ data.conversation_id # None)
               => outcomes = {FirstMatch(data, l) : l \in Resolved(data)}
        /\ \A res \in outcomes :
               /\ Len(res.calls) = Len(calls)
               /\ \A c \in CallIds : c # res.id => res.calls[c] = calls[c]

NoStepMatches(data) ==
    /\ Unplaced(data)
    /\ \A l \in Resolved(data) : l = 0 \/ NullCalls(l) = {}
    /\ ~KeyInUse(data.call_sid)
    /\ InFlight = {}

(* C15, the handler as a function of the tables.                           *)
C15_Handler ==
    \A data \in CallsTranscriptInputs :
        NoStepMatches(data)
        => transcript_webhook(leads, calls, data) =
              {[calls |-> calls, id |-> 0, ret |-> "call_not_found"]}

(* C15, steps: the discarding request leaves every table and the set of    *)
(* suspended handlers as they were.                                        *)
C15_Step ==
    (last'.op = "transcript_webhook" /\ last'.ret = "call_not_found")
        => leads' = leads /\ calls' = calls /\ pending' = pending

(* C15: when none of the transcript correlation steps matches, the event   *)
(* is discarded: no Lead or Call is created or changed, nothing is queued  *)
(* for retry, and the answer is the acknowledgment call_not_found, not an  *)
(* error.                                                                  *)
C15_Discarded == []C15_Handler /\ [][C15_Step]_vars

(* C15 witness: an event was discarded although a Call without transcript  *)
(* was stored, one that is not in flight.                                  *)
C15_Witness ==
    /\ last.op = "transcript_webhook" /\ last.ret = "call_not_found"
    /\ \E c \in CallIds :
          calls[c].transcript = None /\ calls[c].status \in {"initiated", "failed"}

(* C16: when the conversation id, phone and call id steps all fail, the    *)
(* transcript is attached to the globally most recent Call in_progress     *)
(* with a null transcript, whichever lead it belongs to.                   *)
C16_RecencyFallback ==
    \A data \in CallsTranscriptInputs :
        (/\ Unplaced(data)
         /\ \A l \in Resolved(data) : l = 0 \/ NullCalls(l) = {}
         /\ ~KeyInUse(data.call_sid)
         /\ InFlight # {})
        => transcript_webhook(leads, calls, data) =
              {FallbackAttached(data, Newest(InFlight), "updated_recent_call")}

(* C16 witness, the race of the claim: two Calls of different leads were   *)
(* in flight, the older known only by its telephony call id, the newer by  *)
(* its own conversation id.  A transcript event with another conversation  *)
(* id and nothing else arrived, and the recency step stored it on the      *)
(* newer Call, whose conversation it is not; the older Call is still in    *)
(* flight without transcript.                                              *)
C16_Witness ==
    /\ last.op = "transcript_webhook" /\ last.ret = "updated_recent_call"
    /\ last.call_id = 2 /\ calls[2].transcript # None
    /\ calls[1].lead_id # calls[2].lead_id
    /\ calls[1].conversation_id \in {Some(k) : k \in CallSids}
    /\ calls[1].transcript = None /\ calls[1].status = "in_progress"
    /\ ~SameLast10(leads[calls[1].lead_id].phone[1], leads[calls[2].lead_id].phone[1])

(* C17 as claimed: once a Call's transcript has been set, no later         *)
(* transcript event, whichever step places it, replaces that transcript    *)
(* with a different text.                                                  *)
C17_TranscriptSetOnce ==
    [][last'.op = "transcript_webhook"
          => \A c \in CallIds :
                calls[c].transcript # None
                    => calls'[c].transcript = calls[c].transcript]_vars

-----------------------------------------------------------------------------
(* Properties of failures and redelivery.                                  *)

(* The provider refused or failed the outbound call request.               *)
ProviderFailure == [raised |-> TRUE, conversation_id |-> None]

(* C18 as claimed: whenever an outbound call initiation fails at the       *)
(* provider after its Call was created, on the initiate endpoint and on    *)
(* the automatic call of lead creation alike, that Call's status becomes   *)
(* failed and the triggering request fails to its caller; the Call is not  *)
(* left in status initiated.                                               *)
C18_FailedInitiation ==
    [][\A p \in pending :
          ProviderResponse(p, ProviderFailure)
          => /\ calls'[p.call_id].status = "failed"
             /\ last'.ret = "500"]_vars

(* A personalization event delivered twice in succession: the second       *)
(* delivery changes nothing and is not answered with an error.             *)
PersonalizationRedelivered(payload) ==
    \A first \in personalization(leads, calls, payload) :
        (/\ first.ret # "500"
         /\ Len(first.leads) <= MaxLeads /\ Len(first.calls) <= MaxCalls)
        => \A second \in personalization(first.leads, first.calls, payload) :
              /\ second.leads = first.leads
              /\ second.calls = first.calls
              /\ second.ret # "500"

(* The same for a transcript event.                                        *)
TranscriptRedelivered(data) ==
    \A first \in transcript_webhook(leads, calls, data) :
        first.ret # "error"
        => \A second \in transcript_webhook(leads, first.calls, data) :
              second.calls = first.calls /\ second.ret # "error"

(* C19 as claimed: each webhook is idempotent under redelivery: the same   *)
(* personalization event or transcript event processed twice in succession *)
(* leaves the same Leads and Calls as processed once, and the second       *)
(* delivery is still acknowledged as success.                              *)
C19_Redelivery ==
    /\ \A payload \in PersonalizationInputs : PersonalizationRedelivered(payload)
    /\ \A data \in TranscriptInputs : TranscriptRedelivered(data)

(* The handlers the voice-agent provider calls, and the answers they give  *)
(* when they found no lead or call to work on.                             *)
WebhookOps == {"personalization", "transcript_webhook"}

NotFoundAnswers == {"404", "call_not_found", "unknown_caller", "defaults"}

(* C20 as claimed: no provider-facing webhook handler answers with an      *)
(* error because a lead or call was not found; the miss is ignored, no     *)
(* record changes and a success response is returned.                      *)
C20_NotFoundIgnored ==
    [][(last'.op \in WebhookOps /\ last'.ret \in NotFoundAnswers)
          => /\ last'.ret # "404"
             /\ leads' = leads /\ calls' = calls]_vars

-----------------------------------------------------------------------------
(* Properties of the phone lookup.                                         *)

(* C21, the function: for all ways of writing p and q, p matches a lead    *)
(* stored with q exactly when q matches a lead stored with p, and exactly  *)
(* when both have 10 digits and agree on the last 10; on every store, the  *)
(* lookup returns the leads that agree with the phone on the last 10       *)
(* digits, so two phones that agree there find the same leads.             *)
C21_Function ==
    /\ \A p, q \in PhoneBook :
          /\ phone_matches(p, LeadWithPhone(Some(q)))
                 <=> phone_matches(q, LeadWithPhone(Some(p)))
          /\ phone_matches(p, LeadWithPhone(Some(q))) <=> SameLast10(p, q)
          /\ SameLast10(p, q)
                 => find_lead_by_phone(leads, p) = find_lead_by_phone(leads, q)
    /\ \A p \in PhoneBook : find_lead_by_phone(leads, p) = LeadsMatching(p)
    /\ find_lead_by_phone(leads, PhoneIntl) = find_lead_by_phone(leads, PhoneNational)

(* C21, the lookup as performed: the lead returned agrees with the phone   *)
(* looked up on the last 10 digits, and none is returned only when no lead *)
(* does.                                                                   *)
C21_Lookup ==
    last.op = "find_lead_by_phone"
        => IF last.lead_id = 0 THEN LeadsMatching(last.ret) = {}
           ELSE last.lead_id \in LeadsMatching(last.ret)

(* C21: phone matching depends only on the last 10 digits after stripping  *)
(* non-digits and is symmetric, whatever the leading +, country code or    *)
(* formatting; +447700900123 and 07700900123 resolve to the same Lead.     *)
C21_PhoneMatching == C21_Function /\ C21_Lookup

(* C21 witness: 07700900123 was looked up and found the lead stored as     *)
(* +447700900123, the second lead of a store whose first lead has another  *)
(* number.                                                                 *)
C21_Witness ==
    /\ last.op = "find_lead_by_phone" /\ last.ret = PhoneNational
    /\ last.lead_id = 2 /\ leads[2].phone = Some(PhoneIntl)
    /\ leads[1].phone = Some(PhoneOther)

-----------------------------------------------------------------------------
(* Further properties of the phase engine.                                 *)

ContractLengths == {None, Some("SIX_MONTHS"), Some("TWELVE_MONTHS")}

(* The leads that differ from lead at most in contract_length and          *)
(* contract_length_confirmed.                                              *)
ContractVariants(lead) ==
    {[lead EXCEPT !.contract_length = v, !.contract_length_confirmed = b] :
        v \in ContractLengths, b \in BOOLEAN}

(* C22: progression does not depend on contract_length: two leads that     *)
(* differ only in contract_length and contract_length_confirmed get the    *)
(* same can_progress and next_phase from evaluate, and advance moves both  *)
(* or neither, to the same phase.                                          *)
C22_ContractLengthIrrelevant ==
    \A i \in LeadIds :
        \A other \in ContractVariants(leads[i]) :
            LET a == check_phase_requirements(leads[i])
                b == check_phase_requirements(other)
            IN  /\ a.can_progress = b.can_progress
                /\ a.next_phase = b.next_phase
                /\ update_lead_phase(leads[i]).ret = update_lead_phase(other).ret
                /\ update_lead_phase(leads[i]).lead.phase
                       = update_lead_phase(other).lead.phase

(* C22 witness: a batch update advanced a lead to BOOKING_VIEWING whose    *)
(* contract length is set and not confirmed.                               *)
C22_Witness ==
    /\ last.op = "process_agent_update" /\ last.advance_called
    /\ leads[1].phase = "BOOKING_VIEWING"
    /\ leads[1].contract_length # None /\ ~leads[1].contract_length_confirmed

(* A payload supplies a field when the field is present and not None.      *)
Supplied(lead_data, f) == f \in DOMAIN lead_data /\ lead_data[f] # None

SeqRange(s) == {s[k] : k \in 1..Len(s)}

NameAndPhoneOnly == [name |-> Some("Alice"), phone |-> Some(PhoneIntl)]

(* What C23 says of the lead created from one payload.                     *)
StartsUnconfirmed(lead_data) ==
    LET lead == create_lead(lead_data)
        info == check_phase_requirements(lead)
    IN  /\ lead.phase = "CONFIRM_INFO"
        /\ \A c \in ConfirmationColumns : ~lead[c]
        /\ ~info.can_progress /\ info.next_phase = None
        /\ \A f \in RequiredFields :
              /\ f \in SeqRange(info.missing_fields) <=> ~Supplied(lead_data, f)
              /\ f \in SeqRange(info.unconfirmed_fields) <=> Supplied(lead_data, f)
        /\ SeqRange(info.missing_fields) \cup SeqRange(info.unconfirmed_fields)
              = RequiredFields
        /\ update_lead_phase(lead) = [lead |-> lead, ret |-> FALSE]

C23_Function ==
    /\ \A lead_data \in LeadCreateInputs : StartsUnconfirmed(lead_data)
    /\ SeqRange(check_phase_requirements(create_lead(NameAndPhoneOnly)).missing_fields)
          = {"budget", "move_in_date", "occupation", "yearly_wage"}

(* The lead just created, in the store.                                    *)
C23_Created ==
    last.op = "create_lead" =>
        \E lead_data \in LeadCreateInputs :
            /\ leads[last.lead_id] = create_lead(lead_data)
            /\ StartsUnconfirmed(lead_data)

(* advance on a lead just created leaves it where it is.                   *)
C23_Advance ==
    (last.op = "create_lead" /\ last'.op = "update_lead_phase")
        => (leads' = leads /\ last'.ret = "false")

(* C23: every newly created lead starts in CONFIRM_INFO with all           *)
(* confirmation flags false, so evaluate returns can_progress = false for  *)
(* it whatever fields were supplied: each required field is missing when   *)
(* not supplied and unconfirmed when supplied; a lead created with name    *)
(* and phone only has budget, move_in_date, occupation and yearly_wage     *)
(* missing, and advance leaves a new lead in CONFIRM_INFO.                 *)
C23_NewLead == [](C23_Function /\ C23_Created) /\ [][C23_Advance]_vars

(* C23 witness: advance was called on the lead created with name and       *)
(* phone only and answered false.                                          *)
C23_Witness ==
    /\ last.op = "update_lead_phase" /\ last.ret = "false"
    /\ leads[1] = create_lead(NameAndPhoneOnly)

-----------------------------------------------------------------------------
(* Further properties of the call records.                                 *)

(* Every Call references an existing Lead.                                 *)
C24_Refs == \A c \in CallIds : calls[c].lead_id \in LeadIds

(* No step removes a Lead or a Call, or changes the lead of a Call.        *)
C24_Step ==
    /\ Len(leads') >= Len(leads)
    /\ Len(calls') >= Len(calls)
    /\ \A c \in CallIds : calls'[c].lead_id = calls[c].lead_id

(* C24: in every reachable state each Call references exactly one existing *)
(* Lead, fixed at creation: no operation (update, transcript attachment by *)
(* any step of the cascade, status change) changes a Call's lead, and no   *)
(* Lead that has Calls is deleted.                                         *)
C24_CallLead == []C24_Refs /\ [][C24_Step]_vars

(* C24 witness: with two leads in the store, the recency step attached a   *)
(* transcript to a Call of the second lead and completed it.               *)
C24_Witness ==
    /\ last.op = "transcript_webhook" /\ last.ret = "updated_recent_call"
    /\ Len(leads) = 2 /\ last.call_id \in CallIds
    /\ calls[last.call_id].lead_id = 2
    /\ calls[last.call_id].status = "completed"
    /\ calls[last.call_id].transcript # None

(* The fields a patch provides, and the value a provided field stores.     *)
Provided(call_update) == {f \in DOMAIN call_update : call_update[f] # None}

Stored(call_update, f) ==
    IF f \in {"analyzed", "status"} THEN call_update[f][1] ELSE call_update[f]

(* The update took effect: the provided fields of that Call overwritten,   *)
(* its other fields and every other Call as before.                        *)
Patched(rows, call_id, call_update, res) ==
    /\ res.ok
    /\ Len(res.calls) = Len(rows)
    /\ \A f \in DOMAIN Call :
          res.calls[call_id][f] =
              IF f \in Provided(call_update) THEN Stored(call_update, f)
              ELSE rows[call_id][f]
    /\ \A c \in 1..Len(rows) : c # call_id => res.calls[c] = rows[c]

(* The patch gives the Call a conversation id that another Call holds.     *)
KeyTaken(rows, call_id, call_update) ==
    /\ call_update.conversation_id # None
    /\ \E c \in 1..Len(rows) :
          c # call_id /\ rows[c].conversation_id = call_update.conversation_id

C25_Function ==
    \A call_id \in 1..(MaxCalls + 1), call_update \in CallUpdateInputs :
        LET res == update_call(calls, call_id, call_update) IN
        IF call_id \notin CallIds THEN res.calls = calls
        ELSE IF KeyTaken(calls, call_id, call_update)
        THEN res.calls = calls /\ ~res.ok
        ELSE Patched(calls, call_id, call_update, res)

C25_Step ==
    last'.op = "update_call" =>
        /\ Len(calls') = Len(calls)
        /\ \A c \in CallIds : c # last'.call_id => calls'[c] = calls[c]
        /\ last'.ret \in {"None", "IntegrityError"} => calls' = calls
        /\ last'.ret = "None" <=> last'.call_id \notin CallIds

-----------------------------------------------------------------------------
(* ElevenLabsService: the system prompt.  A Python str is a sequence of    *)
(* chunks of text; the empty str is <<>>, concatenation is \o.             *)

Str(s) == IF s = "" THEN <<>> ELSE <<s>>

DigitChars == <<"0", "1", "2", "3", "4", "5", "6", "7", "8", "9">>

(* str(n) for an int: the decimal digits, with a sign.                     *)
RECURSIVE NatToStr(_)
NatToStr(n) ==
    IF n < 10 THEN <<DigitChars[n + 1]>>
    ELSE NatToStr(n \div 10) \o <<DigitChars[(n % 10) + 1]>>

IntToStr(n) == IF n < 0 THEN <<"-">> \o NatToStr(-n) ELSE NatToStr(n)

(* getattr(lead, f, None)                                                  *)
Attr(lead, f) == IF f \in DOMAIN lead THEN lead[f] ELSE None

PropertyIntFields == {"property_bedrooms", "property_monthly_cost"}

(* as_str(value) for the value of attribute f: "" for None, else str().    *)
as_str(f, value) ==
    IF value = None THEN <<>>
    ELSE IF f \in IntFields \cup PropertyIntFields THEN IntToStr(value[1])
    ELSE IF f \in PhoneFields THEN value[1]
    ELSE Str(value[1])

(* An item of a template: literal text or a {placeholder}.                 *)
Text(s) == [text |-> s]
Placeholder(name) == [field |-> name]

(* build_general_system_prompt_template: the placeholders in their order,  *)
(* the text between them shortened to its first words.                     *)
build_general_system_prompt_template ==
    <<Text("You are Charlie from Lobby, a real estate agent. Check "),
      Placeholder("lead_phase"),
      Text(" ... - CONFIRM_INFO: First confirm/collect "),
      Placeholder("phase_missing_fields"),
      Text(" ... - BOOKING_VIEWING: Offer slots from "),
      Placeholder("available_viewing_slots"),
      Text(" - VIEWING_BOOKED: Viewing is on "),
      Placeholder("viewing_date"), Text(" at "), Placeholder("viewing_time"),
      Text(" ... - On first mention say: the property at "),
      Placeholder("property_address"),
      Text(" - If it's a "), Placeholder("property_bedrooms"),
      Text(" property at "), Placeholder("property_monthly_cost"),
      Text("/month, say: that's GBP "), Placeholder("price_per_room"),
      Text(" per bedroom ... - Name: "), Placeholder("lead_name"),
      Text(" - Phone: "), Placeholder("lead_phone"),
      Text(" - Budget: "), Placeholder("lead_budget"),
      Text(" - Move-in date: "), Placeholder("lead_move_in_date"),
      Text(" - Annual income: "), Placeholder("lead_yearly_wage"),
      Text(" - Occupation: "), Placeholder("lead_occupation"),
      Text(" - Contract length: "), Placeholder("lead_contract_length"),
      Text(" ... - VIEWING_BOOKED: Confirm viewing on "),
      Placeholder("viewing_date"), Text(" at "), Placeholder("viewing_time"),
      Text(" ... - Use their name naturally: "),
      Placeholder("lead_name_fallback"),
      Text(" - English only ... - Stay on topic: booking the viewing")>>

(* The template of test_render_prompt_with_missing_variables.              *)
TestTemplate ==
    <<Text("Hello "), Placeholder("lead_name"), Text(", your budget is "),
      Placeholder("lead_budget"), Text(" and "), Placeholder("unknown_field"),
      Text(".")>>

(* The labels of the confirmation gaps, in the order of the six tests.     *)
GapLabels ==
    LET gap(f, label) == [field |-> f, confirmed |-> f \o "_confirmed", label |-> label]
    IN  <<gap("name", "name"), gap("budget", "budget"),
          gap("move_in_date", "move-in date"), gap("occupation", "occupation"),
          gap("yearly_wage", "annual income"),
          gap("contract_length", "contract length preference")>>

(* `not getattr(lead, f, None) or not getattr(lead, f_confirmed, False)`   *)
IsGap(lead, g) == ~Truthy(g.field, Attr(lead, g.field)) \/ ~lead[g.confirmed]

(* The list missing_fields of build_template_variables.                    *)
prompt_missing_fields(lead) ==
    LET hit == SelectSeq(GapLabels, LAMBDA g : IsGap(lead, g))
    IN  [k \in 1..Len(hit) |-> hit[k].label]

(* ", ".join(items)                                                        *)
RECURSIVE join(_)
join(items) ==
    IF items = <<>> THEN <<>>
    ELSE IF Len(items) = 1 THEN <<items[1]>>
    ELSE <<items[1], ", ">> \o join(Tail(items))

(* Python 3 round(m / b) for ints m and b > 0: to the nearest integer, a   *)
(* half to the even neighbour.                                             *)
round_div(m, b) ==
    LET q == m \div b
        r == m % b
    IN  IF 2 * r < b THEN q
        ELSE IF 2 * r > b THEN q + 1
        ELSE IF q % 2 = 0 THEN q ELSE q + 1

(* Mutant of price_per_room: without the test on the bedroom count; the    *)
(* ZeroDivisionError is caught and leaves "".  Integer division.           *)
price_per_room_floor(bedrooms, monthly) ==
    IF bedrooms # None /\ bedrooms # Some(0) /\ monthly # None /\ monthly # Some(0)
       /\ bedrooms[1] > 0
    THEN IntToStr(monthly[1] \div bedrooms[1])
    ELSE <<>>

(* Lines 193-202: `if bedrooms and monthly and int(bedrooms) > 0`, else    *)
(* and on any exception "".                                                *)
price_per_room(bedrooms, monthly) ==
    IF bedrooms # None /\ bedrooms # Some(0) /\ monthly # None /\ monthly # Some(0)
       /\ bedrooms[1] > 0
    THEN IntToStr(round_div(monthly[1], bedrooms[1]))
    ELSE <<>>

(* `x or ""` for an Optional int.                                          *)
OrEmpty(x) == IF x = Some(0) THEN None ELSE x

build_template_variables(lead) ==
    LET missing_fields == prompt_missing_fields(lead)
        bedrooms == Attr(lead, "property_bedrooms")
        monthly == Attr(lead, "property_monthly_cost")
        phase_value == Str(lead.phase)
        name == as_str("name", Attr(lead, "name"))
    IN  [lead_phase |-> IF phase_value = <<>> THEN <<"NEW">> ELSE phase_value,
         phase_missing_fields |->
             IF missing_fields = <<>> THEN <<"(none)">> ELSE join(missing_fields),
         available_viewing_slots |-> <<"weekdays 9:00-17:00">>,
         viewing_date |-> as_str("viewing_date", Attr(lead, "viewing_date")),
         viewing_time |-> as_str("viewing_time", Attr(lead, "viewing_time")),
         property_address |-> as_str("property_address", Attr(lead, "property_address")),
         property_bedrooms |-> as_str("property_bedrooms", OrEmpty(bedrooms)),
         property_monthly_cost |-> as_str("property_monthly_cost", OrEmpty(monthly)),
         price_per_room |-> price_per_room(bedrooms, monthly),
         lead_name |-> name,
         lead_phone |-> as_str("phone", Attr(lead, "phone")),
         lead_budget |-> as_str("budget", Attr(lead, "budget")),
         lead_move_in_date |-> as_str("move_in_date", Attr(lead, "move_in_date")),
         lead_yearly_wage |-> as_str("yearly_wage", Attr(lead, "yearly_wage")),
         lead_occupation |-> as_str("occupation", Attr(lead, "occupation")),
         lead_contract_length |-> as_str("contract_length", Attr(lead, "contract_length")),
         lead_name_fallback |-> IF name = <<>> THEN <<"there">> ELSE name]

(* The template as the str it is: a placeholder is "{", its name, "}".     *)
RECURSIVE raw(_)
raw(template) ==
    IF template = <<>> THEN <<>>
    ELSE (IF "text" \in DOMAIN Head(template) THEN <<Head(template).text>>
          ELSE <<"{", Head(template).field, "}">>) \o raw(Tail(template))

(* template.format_map(mapping), mapping being a function from the keys it *)
(* answers to their values.                                                *)
RECURSIVE format_map(_, _)
format_map(template, mapping) ==
    IF template = <<>> THEN <<>>
    ELSE (IF "text" \in DOMAIN Head(template) THEN <<Head(template).text>>
          ELSE mapping[Head(template).field]) \o format_map(Tail(template), mapping)

Keys(template) ==
    {template[k].field : k \in {j \in 1..Len(template) : "field" \in DOMAIN template[j]}}

(* Mutant of render_prompt_template: a plain dict; the KeyError of a       *)
(* placeholder without variable is caught and the raw template returned.   *)
render_prompt_template_plain_dict(template, variables) ==
    IF Keys(template) \subseteq DOMAIN variables
    THEN format_map(template, variables)
    ELSE raw(template)

(* format_map over SafeDict(variables): a placeholder without variable     *)
(* gets "".  format_map raises on a single brace in the text; then the raw *)
(* template is returned.                                                   *)
render_prompt_template(template, variables) ==
    LET SafeDict == [key \in Keys(template) |->
                        IF key \in DOMAIN variables THEN variables[key] ELSE <<>>]
    IN  IF \E k \in 1..Len(template) :
              "text" \in DOMAIN template[k] /\ template[k].text \in {"{", "}"}
        THEN raw(template)
        ELSE format_map(template, SafeDict)

(* ElevenLabsService.build_system_prompt in full.                          *)
system_prompt(lead) ==
    render_prompt_template(build_general_system_prompt_template,
                           build_template_variables(lead))

-----------------------------------------------------------------------------
(* The prompt of one lead object as the phase engine changes it.           *)

Bedrooms == {None, Some(0), Some(2), Some(3)}
MonthlyCosts == {None, Some(0), Some(5), Some(7), Some(2000), Some(3000)}

(* Lead objects: rows of "leads" as created, and for two of them the       *)
(* objects carrying the attributes property_bedrooms and                   *)
(* property_monthly_cost that build_template_variables reads with getattr. *)
PromptLeads ==
    {create_lead(p) : p \in LeadCreateInputs}
    \cup {[property_bedrooms |-> b, property_monthly_cost |-> m] @@ create_lead(p) :
             p \in {NameAndPhoneOnly, FullLeadCreate},
             b \in Bedrooms, m \in MonthlyCosts}

PromptUpdateInputs ==
    {Confirming({c}) : c \in ConfirmFlags}
    \cup {ConfirmAllRequired,
          [AgentUpdateBody EXCEPT !.yearly_wage = Some(0)],
          [AgentUpdateBody EXCEPT !.contract_length = Some("TWELVE_MONTHS")],
          [AgentUpdateBody EXCEPT !.viewing_date = Some("2025-09-10"),
                                  !.viewing_time = Some("14:00")]}

(* build_system_prompt(lead) for a stored lead.                            *)
BuildSystemPrompt(lead_id) ==
    /\ lead_id \in 1..Len(leads)
    /\ last' = Result("build_system_prompt", lead_id, system_prompt(leads[lead_id]), FALSE)
    /\ UNCHANGED <<leads, calls, pending>>
    /\ UNCHANGED caches

InitPrompt ==
    /\ leads \in {<<lead>> : lead \in PromptLeads}
    /\ calls = <<>>
    /\ pending = {}
    /\ last = Result("create_lead", 1, "created", FALSE)
    /\ CachesConstructed

NextPrompt ==
    \/ \E body \in PromptUpdateInputs : AgentUpdate(body)
    \/ \E i \in 1..Len(leads) : BuildSystemPrompt(i)

SpecPrompt == InitPrompt /\ [][NextPrompt]_vars

-----------------------------------------------------------------------------
(* Properties of the system prompt.                                        *)

(* A str holds a {placeholder} token.                                      *)
HasPlaceholder(str) ==
    \E k \in 1..(Len(str) - 2) : str[k] = "{" /\ str[k + 2] = "}"

(* The variables a caller of render_prompt_template may leave out.         *)
TestVariables == [lead_name |-> <<"Alice">>, lead_budget |-> <<"1", "2", "0", "0">>]

Restrict(f, S) == [k \in S |-> f[k]]

(* C26: for any lead, with any subset of its fields unset, the rendered    *)
(* system prompt has no {placeholder} token: every placeholder of the      *)
(* template is replaced by the lead's value or by the empty string; the    *)
(* same for a template rendered with any subset of its variables.          *)
C26_NoPlaceholder ==
    /\ \A i \in LeadIds :
          /\ ~HasPlaceholder(system_prompt(leads[i]))
          /\ system_prompt(leads[i]) =
                format_map(build_general_system_prompt_template,
                           build_template_variables(leads[i]))
    /\ \A S \in SUBSET DOMAIN TestVariables :
          LET rendered == render_prompt_template(TestTemplate, Restrict(TestVariables, S))
          IN  /\ ~HasPlaceholder(rendered)
              /\ rendered =
                    <<"Hello ">> \o (IF "lead_name" \in S THEN <<"Alice">> ELSE <<>>)
                    \o <<", your budget is ">>
                    \o (IF "lead_budget" \in S THEN <<"1", "2", "0", "0">> ELSE <<>>)
                    \o <<" and ", ".">>
    /\ last.op = "build_system_prompt" => ~HasPlaceholder(last.ret)

(* C26 witness: the prompt was built for the lead that has a name and a    *)
(* phone and nothing else.                                                 *)
C26_Witness ==
    /\ last.op = "build_system_prompt"
    /\ leads[last.lead_id] = create_lead(NameAndPhoneOnly)
    /\ last.ret = system_prompt(leads[last.lead_id])
    /\ Len(last.ret) > 0

(* The fields check_phase_requirements reports as missing or unconfirmed.  *)
Reported(lead) ==
    LET info == check_phase_requirements(lead)
    IN  SeqRange(info.missing_fields) \cup SeqRange(info.unconfirmed_fields)

(* C27 as claimed: the prompt's missing-fields list agrees with the phase  *)
(* engine: it names a field exactly when evaluate reports that field as    *)
(* missing or unconfirmed among the required CONFIRM_INFO fields, and it   *)
(* renders as "(none)" exactly when evaluate reports zero missing and zero *)
(* unconfirmed fields.                                                     *)
C27_PromptAgreesWithEngine ==
    \A i \in LeadIds :
        LET lead == leads[i]
            listed == SeqRange(prompt_missing_fields(lead))
        IN  /\ \A k \in 1..Len(GapLabels) :
                  GapLabels[k].label \in listed
                      <=> GapLabels[k].field \in Reported(lead)
            /\ build_template_variables(lead).phase_missing_fields = <<"(none)">>
                  <=> Reported(lead) = {}

(* The lead has the value: it is there and Python's truth test accepts it. *)
Has(x) == x # None /\ x # Some(0)

Abs(n) == IF n < 0 THEN -n ELSE n

(* n is m / b rounded: no integer is nearer, and of two equally near ones  *)
(* n is the even one.                                                      *)
Rounded(n, m, b) ==
    /\ 2 * Abs(m - n * b) <= b
    /\ 2 * Abs(m - n * b) = b => n % 2 = 0

PriceAsClaimed(bedrooms, monthly, price) ==
    IF Has(bedrooms) /\ Has(monthly) /\ bedrooms[1] > 0
    THEN \E n \in {monthly[1] \div bedrooms[1], (monthly[1] \div bedrooms[1]) + 1} :
            Rounded(n, monthly[1], bedrooms[1]) /\ price = IntToStr(n)
    ELSE price = <<>>

-----------------------------------------------------------------------------
(* The personalization response and the prewarm cache.                     *)

(* get_phase_first_message: the message is fixed by the phase, the name    *)
(* (or "there") and, for VIEWING_BOOKED, the viewing date.                 *)
get_phase_first_message(lead) ==
    [phase |-> lead.phase,
     name |-> IF Truthy("name", lead.name) THEN lead.name[1] ELSE "there",
     viewing_date |-> IF lead.phase = "VIEWING_BOOKED" THEN lead.viewing_date ELSE None]

(* The two variables the webhook returns for a lead (lines 340-343).       *)
lead_variables(lead) ==
    [first_message |-> get_phase_first_message(lead),
     system_prompt |-> build_system_prompt(lead)]

(* Lines 288-291: an identifier but no caller phone.                       *)
NoPhoneVariables ==
    [first_message |-> Text("Hello! I'm Charlie from Lobby. How can I help you today?"),
     system_prompt |-> Text("You are Charlie from Lobby, a helpful real estate assistant. ...")]

(* Lines 389-392: minimal safe defaults.                                   *)
MinimalDefaults ==
    [first_message |-> Text("Hello, this is Charlie from Lobby. How can I help you today?"),
     system_prompt |-> Text("You are Charlie from Lobby.")]

(* Mutant of get_last_cached: the method written as its name says.         *)
get_last_cached_defined(prewarm) ==
    [raised |-> FALSE,
     value |-> IF prewarm.last_lead_id # None
                  /\ prewarm.last_lead_id[1] \in DOMAIN prewarm.cache
               THEN prewarm.cache[prewarm.last_lead_id[1]] ELSE <<>>]

(* get_prewarm_service().get_last_cached(): the class has prewarm_for_lead, *)
(* get_cached and _cleanup and no get_last_cached; the call raises         *)
(* AttributeError.                                                         *)
get_last_cached(prewarm) == [raised |-> TRUE, value |-> <<>>]

(* Lines 371-392: `cached = ... or {}`, {} on an exception; first_message  *)
(* and system_prompt are taken from it; the minimal defaults when neither  *)
(* is there.                                                               *)
fallback_variables(prewarm) ==
    LET got == get_last_cached(prewarm)
        cached == IF got.raised THEN <<>> ELSE got.value
        kept == DOMAIN cached \cap {"first_message", "system_prompt"}
    IN  IF kept = {} THEN MinimalDefaults ELSE [k \in kept |-> cached[k]]

(* The webhook's outcomes with the dynamic_variables of the response; an   *)
(* outcome that ends in a 500 has none.                                    *)
personalization_response(lead_rows, rows, payload, prewarm) ==
    {[variables |->
         IF res.ret \in {"lead", "call_lead"} THEN lead_variables(res.leads[res.lead_id])
         ELSE IF res.ret = "unknown_caller" THEN NoPhoneVariables
         ELSE IF res.ret = "defaults" THEN fallback_variables(prewarm)
         ELSE <<>>] @@ res :
        res \in personalization(lead_rows, rows, payload)}

-----------------------------------------------------------------------------
(* Properties of the caches.                                               *)

(* Variables a cache may hold: those of the first stored lead, and those   *)
(* of a lead that matches no row.                                          *)
CachedVariables ==
    {lead_variables(leads[i]) : i \in LeadIds \cap {1}}
    \cup {lead_variables([create_lead(FullLeadCreate) EXCEPT !.phase = "BOOKING_VIEWING"])}

(* Contents of the prewarm cache: any entries for any lead ids, the last   *)
(* prewarmed lead any of them or none.                                     *)
PrewarmStates ==
    {[cache |-> c, last_lead_id |-> l] :
        c \in UNION {[S -> CachedVariables] : S \in SUBSET (1..MaxLeads)},
        l \in Optional(1..MaxLeads)}

-----------------------------------------------------------------------------
(* The endpoints under /api/leads that change the store, with the header   *)
(* X-Webhook-Secret of the request.                                        *)

(* settings.webhook_secret                                                 *)
webhook_secret == "secret"

(* The header as sent: absent, the secret, another value, empty.           *)
SecretHeaders == {None, Some(webhook_secret), Some("wrong"), Some("")}

(* deps.require_webhook_secret: TRUE when the request passes, FALSE when   *)
(* HTTPException(401) is raised.                                           *)
require_webhook_secret(x_webhook_secret) ==
    ~(x_webhook_secret = None \/ x_webhook_secret = Some("")
      \/ x_webhook_secret # Some(webhook_secret))

LeadsApiInputs ==
    {NameAndPhoneOnly, FullLeadCreate, [name |-> Some("Bob"), phone |-> None]}

(* CallTranscriptUpdate bodies.                                            *)
LeadTranscriptInputs == [lead_id : 1..MaxLeads, transcript : TranscriptTexts]

(* POST /api/leads/ (leads.py:33-100).  The route declares no dependency   *)
(* on require_webhook_secret: the header is not read.                      *)
PostLead(x_webhook_secret, lead_data) == ApiCreateLead(lead_data)

(* POST /api/leads/{lead_id}/transcript (leads.py:137-184), behind         *)
(* Depends(require_webhook_secret).                                        *)
PostLeadTranscript(x_webhook_secret, lead_id, transcript_data) ==
    /\ IF ~require_webhook_secret(x_webhook_secret)
       THEN /\ leads' = leads
            /\ last' = Result("store_transcript", 0, "401", FALSE)
       ELSE IF transcript_data.lead_id # lead_id
       THEN /\ leads' = leads
            /\ last' = Result("store_transcript", lead_id, "400", FALSE)
       ELSE IF get_lead(lead_id) = None
       THEN /\ leads' = leads
            /\ last' = Result("store_transcript", lead_id, "404", FALSE)
       ELSE /\ leads' = [leads EXCEPT
                            ![lead_id].call_transcript = Some(transcript_data.transcript)]
            /\ last' = Result("store_transcript", lead_id, "200", FALSE)
    /\ UNCHANGED <<calls, pending>>
    /\ UNCHANGED caches

NextLeadsApi ==
    \/ \E h \in SecretHeaders, lead_data \in LeadsApiInputs : PostLead(h, lead_data)
    \/ \E h \in SecretHeaders, lead_id \in 1..MaxLeads,
          transcript_data \in LeadTranscriptInputs :
            PostLeadTranscript(h, lead_id, transcript_data)
    \/ \E p \in pending, outcome \in ProviderOutcomes : ProviderResponse(p, outcome)

SpecLeadsApi == Init /\ [][NextLeadsApi]_vars

-----------------------------------------------------------------------------
(* Properties of the /api/leads endpoints.                                 *)

(* The request was answered 401 and the store is as before.                *)
Rejected == last'.ret = "401" /\ UNCHANGED <<leads, calls, pending>>

(* C30 as claimed: every state-changing endpoint under /api/leads (create  *)
(* lead, store lead transcript) rejects a request without a valid          *)
(* X-Webhook-Secret header with 401 and leaves the store unchanged: no     *)
(* Lead is created, no call is started, no transcript is stored.           *)
C30_SecretRequired ==
    [][\A h \in SecretHeaders :
          ~require_webhook_secret(h) =>
              /\ \A lead_data \in LeadsApiInputs :
                    PostLead(h, lead_data) => Rejected
              /\ \A lead_id \in 1..MaxLeads, transcript_data \in LeadTranscriptInputs :
                    PostLeadTranscript(h, lead_id, transcript_data) => Rejected]_vars

-----------------------------------------------------------------------------
(* One phase check per batch update.                                       *)

PhaseRank ==
    [CONFIRM_INFO |-> 0, BOOKING_VIEWING |-> 1, VIEWING_BOOKED |-> 2, COMPLETED |-> 3]

(* C31, the function: on every stored lead and every update body, the      *)
(* phase check runs on the lead with all fields applied, advance is called *)
(* exactly when that check allows progress, and the lead ends one phase    *)
(* further (else in the same phase) with exactly the applied fields; a     *)
(* CONFIRM_INFO lead whose update completes the confirmations ends in      *)
(* BOOKING_VIEWING also when viewing date and time are then both set.      *)
C31_Function ==
    \A i \in LeadIds : \A body \in AgentUpdateInputs :
        LET r == parse_AgentUpdateRequest(body)
            lead == leads[i]
            applied == apply_viewing(apply_new_data(apply_confirmations(lead, r), r), r)
            info == check_phase_requirements(applied)
            res == process_agent_update(lead, r)
            moved == PhaseRank[res.lead.phase] - PhaseRank[lead.phase]
        IN  /\ res.advance_called <=> info.can_progress
            /\ moved = IF info.can_progress THEN 1 ELSE 0
            /\ [res.lead EXCEPT !.phase = lead.phase] = applied
            /\ lead.phase = "CONFIRM_INFO" /\ AllRequiredSetAndConfirmed(applied)
                  => res.lead.phase = "BOOKING_VIEWING"

(* C31, steps: a batch update moves the phase of its lead by one step when *)
(* it called advance and by none otherwise.                                *)
C31_Step ==
    last'.op = "process_agent_update" /\ last'.ret = "ok" =>
        PhaseRank[leads'[last'.lead_id].phase] - PhaseRank[leads[last'.lead_id].phase]
            = IF last'.advance_called THEN 1 ELSE 0

(* C31: a batch update runs the phase check once, after all fields are     *)
(* applied, and moves the lead by at most one phase even when the rule of  *)
(* the phase it enters already holds.                                      *)
C31_SingleAdvance == []C31_Function /\ [][C31_Step]_vars

(* C31 witness: a batch update advanced a lead to BOOKING_VIEWING although *)
(* viewing date and time are both set, so that the next rule holds.        *)
C31_Witness ==
    /\ last.op = "process_agent_update" /\ last.advance_called
    /\ leads[last.lead_id].phase = "BOOKING_VIEWING"
    /\ leads[last.lead_id].viewing_date # None
    /\ leads[last.lead_id].viewing_time # None
    /\ check_phase_requirements(leads[last.lead_id]).can_progress

-----------------------------------------------------------------------------
(* The call-id step of transcript correlation.                             *)

(* C32: when the event's conversation id is no Call's key, the phone       *)
(* resolves no lead or a lead with no Call lacking a transcript, and the   *)
(* event's call id is the key of a Call, the handler answers               *)
(* updated_and_stored for that Call: its key becomes the conversation id,  *)
(* it carries the transcript and is completed; a lookup by the old call id *)
(* then finds no Call and a lookup by the conversation id finds this one.  *)
C32_CallIdStep ==
    \A data \in CallsTranscriptInputs : \A l \in Resolved(data) :
        (/\ data.transcript # None /\ data.conversation_id # None
         /\ ~KeyInUse(data.conversation_id)
         /\ (l = 0 \/ NullCalls(l) = {})
         /\ KeyInUse(data.call_sid))
        => LET c == CallWithKey(data.call_sid)
               res == transcript_fallbacks(calls, data, l)
           IN  /\ res \in transcript_webhook(leads, calls, data)
               /\ res.ret = "updated_and_stored" /\ res.id = c
               /\ res.calls[c].conversation_id = data.conversation_id
               /\ res.calls[c].transcript = data.transcript
               /\ res.calls[c].status = "completed"
               /\ get_call_by_conversation_id(res.calls, data.call_sid[1]) = 0
               /\ get_call_by_conversation_id(res.calls, data.conversation_id[1]) = c

(* C32 witness: the call-id step re-keyed a Call that was stored under a   *)
(* telephony call id; no Call is left under a call id.                     *)
C32_Witness ==
    /\ last.op = "transcript_webhook" /\ last.ret = "updated_and_stored"
    /\ calls[last.call_id].conversation_id \in {Some(c) : c \in ConvIds}
    /\ calls[last.call_id].status = "completed"
    /\ \A sid \in CallSids : get_call_by_conversation_id(calls, sid) = 0

-----------------------------------------------------------------------------
(* Transcript events that lack the conversation id.                        *)

(* C33 as claimed: an event with a transcript and without conversation id  *)
(* that carries a caller phone or a call id is still run through the       *)
(* phone, call-id and recency steps: whenever those steps would find a     *)
(* Call, the handler attaches the transcript to a Call.                    *)
C33_DegradesToNextStep ==
    \A data \in CallsTranscriptInputs :
        (/\ data.transcript # None /\ data.conversation_id = None
         /\ (data.caller_phone # None \/ data.call_sid # None))
        => \A l \in Resolved(data) :
               transcript_fallbacks(calls, data, l).id # 0
                   => \E res \in transcript_webhook(leads, calls, data) : res.id # 0

-----------------------------------------------------------------------------
(* The prewarm cache (services/elevenlabs_prewarm.py) and the prompt       *)
(* storage (services/prompt_storage.py): dicts of entries that expire.     *)

(* timedelta(minutes=5) and ttl_minutes = 5, in minutes.                   *)
ttl == 5
ttl_minutes == 5

(* The clock is followed up to MaxTime minutes; a handler that reads the   *)
(* clock twice sees up to MaxElapsed minutes pass between the readings.    *)
MaxTime == 8
MaxElapsed == 1

(* dict[k] = v and `del dict[k]` for k in S.                               *)
Put(d, k, v) == [x \in DOMAIN d \cup {k} |-> IF x = k THEN v ELSE d[x]]
Del(d, S) == [x \in DOMAIN d \ S |-> d[x]]

(* _cleanup and _cleanup_expired at clock reading t.                       *)
cleanup(cache, t) == Del(cache, {k \in DOMAIN cache : t > cache[k].expires_at})

(* prewarm_for_lead: the entry expires ttl after the reading t1; _cleanup  *)
(* runs at the reading t2.                                                 *)
prewarm_for_lead(service, lead_id, lead, t1, t2) ==
    [cache |-> cleanup(Put(service.cache, lead_id,
                           [variables |-> lead_variables(lead),
                            expires_at |-> t1 + ttl]), t2),
     last_lead_id |-> Some(lead_id)]

(* Mutant of get_cached: the entry is returned whatever its age.           *)
get_cached_any_age(service, lead_id, t) ==
    IF lead_id \notin DOMAIN service.cache
    THEN [service |-> service, ret |-> None, branch |-> "absent"]
    ELSE [service |-> service, ret |-> Some(service.cache[lead_id].variables),
          branch |-> "entry"]

(* get_cached at clock reading t: the service it leaves, what it returns   *)
(* and the branch taken.                                                   *)
get_cached(service, lead_id, t) ==
    IF lead_id \notin DOMAIN service.cache
    THEN [service |-> service, ret |-> None, branch |-> "absent"]
    ELSE IF t > service.cache[lead_id].expires_at
    THEN [service |-> [service EXCEPT !.cache = Del(@, {lead_id})],
          ret |-> None, branch |-> "expired"]
    ELSE [service |-> service, ret |-> Some(service.cache[lead_id].variables),
          branch |-> "entry"]

(* The reference id: the first 16 hex digits of the SHA-256 of the         *)
(* content, which is the same for the same content and taken as different  *)
(* for different content.                                                  *)
prompt_id(lead_id, variables) == [lead_id |-> lead_id, content |-> variables]

(* store_prompt: created_at and expires_at from the reading t1,            *)
(* _cleanup_expired at the reading t2; returns the reference id.           *)
store_prompt(storage, lead_id, variables, t1, t2) ==
    LET id == prompt_id(lead_id, variables) IN
    [storage |-> cleanup(Put(storage, id,
                             [lead_id |-> lead_id,
                              system_prompt |-> variables.system_prompt,
                              first_message |-> variables.first_message,
                              created_at |-> t1,
                              expires_at |-> t1 + ttl_minutes]), t2),
     ret |-> id]

(* get_prompt at clock reading t.                                          *)
get_prompt(storage, id, t) ==
    IF id \notin DOMAIN storage
    THEN [storage |-> storage, ret |-> None, branch |-> "absent"]
    ELSE IF t > storage[id].expires_at
    THEN [storage |-> Del(storage, {id}), ret |-> None, branch |-> "expired"]
    ELSE [storage |-> storage, ret |-> Some(storage[id]), branch |-> "entry"]

(* The reference ids of the stored leads' prompts.                         *)
PromptIds == {prompt_id(i, lead_variables(leads[i])) : i \in 1..Len(leads)}

(* get_prewarm_service().prewarm_for_lead(lead), as initiate_call calls it *)
(* (api/calls.py line 98).                                                 *)
PrewarmForLead(lead_id, elapsed) ==
    /\ lead_id \in 1..Len(leads)
    /\ now + elapsed <= MaxTime
    /\ prewarm_service' =
           prewarm_for_lead(prewarm_service, lead_id, leads[lead_id], now, now + elapsed)
    /\ now' = now + elapsed
    /\ last' = Result("prewarm_for_lead", lead_id, "variables", FALSE)
    /\ UNCHANGED <<leads, calls, pending, prompt_storage>>

GetCached(lead_id) ==
    LET res == get_cached(prewarm_service, lead_id, now) IN
    /\ prewarm_service' = res.service
    /\ last' = Result("get_cached", lead_id, res.branch, FALSE)
    /\ UNCHANGED <<leads, calls, pending, prompt_storage, now>>

(* get_prompt_storage().store_prompt(...), as answer_call calls it         *)
(* (api/twiml.py lines 77-89).                                             *)
StorePrompt(lead_id, elapsed) ==
    /\ lead_id \in 1..Len(leads)
    /\ now + elapsed <= MaxTime
    /\ prompt_storage' =
           store_prompt(prompt_storage, lead_id, lead_variables(leads[lead_id]),
                        now, now + elapsed).storage
    /\ now' = now + elapsed
    /\ last' = Result("store_prompt", lead_id, "prompt_id", FALSE)
    /\ UNCHANGED <<leads, calls, pending, prewarm_service>>

GetPrompt(lead_id) ==
    LET id == prompt_id(lead_id, lead_variables(leads[lead_id]))
        res == get_prompt(prompt_storage, id, now)
    IN
    /\ lead_id \in 1..Len(leads)
    /\ prompt_storage' = res.storage
    /\ last' = Result("get_prompt", lead_id, res.branch, FALSE)
    /\ UNCHANGED <<leads, calls, pending, prewarm_service, now>>

(* Time passes between requests.                                           *)
Tick ==
    /\ now < MaxTime
    /\ now' = now + 1
    /\ UNCHANGED <<leads, calls, pending, last, prewarm_service, prompt_storage>>

(* Two stored leads, both caches as constructed.                           *)
InitCaches ==
    /\ leads = <<create_lead(FullLeadCreate),
                 create_lead([FullLeadCreate EXCEPT !.name = Some("Bob"),
                                                    !.phone = Some(PhoneOther)])>>
    /\ calls = <<>>
    /\ pending = {}
    /\ last = Result("startup", 0, "", FALSE)
    /\ CachesConstructed

NextCaches ==
    \/ \E lead_id \in 1..MaxLeads, elapsed \in 0..MaxElapsed :
          PrewarmForLead(lead_id, elapsed)
    \/ \E lead_id \in 1..MaxLeads : GetCached(lead_id)
    \/ \E lead_id \in 1..MaxLeads, elapsed \in 0..MaxElapsed :
          StorePrompt(lead_id, elapsed)
    \/ \E lead_id \in 1..MaxLeads : GetPrompt(lead_id)
    \/ Tick

SpecCaches == InitCaches /\ [][NextCaches]_vars

-----------------------------------------------------------------------------
(* Expiry in the two caches.                                               *)

Expired(cache) == {k \in DOMAIN cache : now > cache[k].expires_at}

(* C34, get: on every reachable cache and clock reading, a get returns an  *)
(* entry only before or at its expiry time, and on an entry whose expiry   *)
(* time has passed it returns nothing and leaves the cache without that    *)
(* entry and otherwise as it was; a get that returns leaves the cache      *)
(* unchanged.                                                              *)
C34_Get ==
    /\ \A lead_id \in 1..MaxLeads :
          LET res == get_cached(prewarm_service, lead_id, now)
              cache == prewarm_service.cache
          IN  /\ res.ret # None =>
                    /\ lead_id \in DOMAIN cache \ Expired(cache)
                    /\ res.ret = Some(cache[lead_id].variables)
                    /\ res.service = prewarm_service
              /\ lead_id \in Expired(cache) =>
                    /\ res.ret = None
                    /\ res.service.cache = Del(cache, {lead_id})
    /\ \A id \in PromptIds :
          LET res == get_prompt(prompt_storage, id, now) IN
          /\ res.ret # None =>
                /\ id \in DOMAIN prompt_storage \ Expired(prompt_storage)
                /\ res.ret = Some(prompt_storage[id])
                /\ res.storage = prompt_storage
          /\ id \in Expired(prompt_storage) =>
                /\ res.ret = None
                /\ res.storage = Del(prompt_storage, {id})

(* C34, insert: right after an insert the cache written holds the new      *)
(* entry, expiring ttl after the insert began, and no entry whose expiry   *)
(* time has passed.                                                        *)
C34_Insert ==
    /\ last'.op = "prewarm_for_lead" /\ prewarm_service' # prewarm_service =>
          LET cache == prewarm_service'.cache IN
          /\ {k \in DOMAIN cache : now' > cache[k].expires_at} = {}
          /\ last'.lead_id \in DOMAIN cache
          /\ cache[last'.lead_id].expires_at = now + ttl
    /\ last'.op = "store_prompt" /\ prompt_storage' # prompt_storage =>
          /\ {k \in DOMAIN prompt_storage' : now' > prompt_storage'[k].expires_at} = {}
          /\ \E id \in DOMAIN prompt_storage' :
                /\ id.lead_id = last'.lead_id
                /\ prompt_storage'[id].expires_at = now + ttl_minutes

(* C34: with the 5-minute time-to-live, a get on either cache never        *)
(* returns an entry whose expiry time has passed (it returns nothing and   *)
(* removes that entry), and right after every insert no expired entry      *)
(* remains in the cache.                                                   *)
C34_CacheExpiry == []C34_Get /\ [][C34_Insert]_vars

(* C34 witness: a get on the prompt storage met an entry past its expiry   *)
(* time and removed it, while the prewarm cache still holds an entry past  *)
(* its expiry time that no insert or get has met yet.                      *)
C34_Witness ==
    /\ last.op = "get_prompt" /\ last.ret = "expired"
    /\ prompt_id(last.lead_id, lead_variables(leads[last.lead_id]))
          \notin DOMAIN prompt_storage
    /\ Expired(prewarm_service.cache) # {}

-----------------------------------------------------------------------------
(* Confirmation flags and values.                                          *)

(* C35, states: for each of the six qualification fields of every stored   *)
(* lead, a true confirmation flag comes with a value.                      *)
C35_Inv ==
    \A i \in LeadIds : \A c \in ConfirmationColumns :
        leads[i][c] => leads[i][field_name(c)] # None

(* C35, steps: no operation unsets a value, and a flag that becomes true   *)
(* belongs to a field that had a value or has been given one.              *)
C35_Step ==
    \A i \in LeadIds : \A c \in ConfirmationColumns :
        /\ leads[i][field_name(c)] # None => leads'[i][field_name(c)] # None
        /\ (leads'[i][c] /\ ~leads[i][c]) =>
              \/ leads[i][field_name(c)] # None
              \/ leads'[i][field_name(c)] # leads[i][field_name(c)]

(* C35: from lead creation through any sequence of batch updates and       *)
(* advance calls, a true confirmation flag implies that the field has a    *)
(* value; no operation unsets a value.                                     *)
C35_ConfirmedHasValue == []C35_Inv /\ [][C35_Step]_vars

(* C35 witness: after a batch update, a lead with a confirmed field still  *)
(* has a field without value, whose flag is false.                         *)
C35_Witness ==
    /\ last.op = "process_agent_update" /\ last.ret = "ok"
    /\ \E c \in ConfirmationColumns :
          leads[last.lead_id][field_name(c)] = None /\ ~leads[last.lead_id][c]
    /\ \E c \in ConfirmationColumns : leads[last.lead_id][c]

-----------------------------------------------------------------------------
(* Transcript and status of a Call.                                        *)

(* C36 as claimed: under any interleaving of call initiation,              *)
(* personalization and transcript webhooks, a Call has a non-null          *)
(* transcript if and only if its status is completed.                      *)
C36_TranscriptIffCompleted ==
    \A c \in CallIds : calls[c].transcript # None <=> calls[c].status = "completed"

-----------------------------------------------------------------------------
(* Re-keying by the phone and recency steps.                               *)

-----------------------------------------------------------------------------
(* Outbound calls started through POST /calls/initiate, for leads stored   *)
(* with or without a phone, and the personalization events of their        *)
(* conversations.                                                          *)

OutboundLeadInputs == {FullLeadCreate, [FullLeadCreate EXCEPT !.phone = None]}

NextOutbound ==
    \/ \E lead_data \in OutboundLeadInputs : ApiCreateLead(lead_data)
    \/ \E lead_id \in 1..MaxLeads, phone_override \in {None, Some(PhoneNational)},
          use_elevenlabs_telephony \in BOOLEAN :
            InitiateCall(lead_id, phone_override, use_elevenlabs_telephony)
    \/ \E p \in pending, outcome \in ProviderOutcomes : ProviderResponse(p, outcome)
    \/ \E payload \in PersonalizationInputs : PersonalizationWebhook(payload)

SpecOutbound == Init /\ [][NextOutbound]_vars

(* C39 as claimed: when the provider's answer to an initiation started     *)
(* through the initiate endpoint carries a conversation id that no Call    *)
(* holds, or that only the Call holds which the personalization event      *)
(* processed just before created while the initiation was waiting, the     *)
(* record created at initiation ends with the conversation id as key and   *)
(* status in_progress, and it is the only Call of that conversation.       *)
C39_InitiationRecordKeepsConversation ==
    [][\A p \in pending : \A outcome \in ProviderOutcomes :
          (/\ p.handler = "initiate_call"
           /\ ~outcome.raised /\ outcome.conversation_id # None
           /\ \A c \in CallIds :
                 calls[c].conversation_id = outcome.conversation_id
                     => /\ c > p.call_id
                        /\ last.op = "personalization" /\ last.call_id = c
           /\ ProviderResponse(p, outcome))
          => /\ calls'[p.call_id].conversation_id = outcome.conversation_id
             /\ calls'[p.call_id].status = "in_progress"
             /\ \A c \in 1..Len(calls') :
                   calls'[c].conversation_id = outcome.conversation_id
                       => c = p.call_id]_vars

-----------------------------------------------------------------------------
(* Inbound calls: personalization events of callers the store does not     *)
(* know, several of them in flight at once.                                *)

(* Requests that may be in flight together.                                *)
MaxInFlight == 2

InboundPhones == {PhoneNational, PhoneIntl, PhoneShort}

InboundInputs ==
    [conversation_id : Optional(ConvIds),
     call_sid : {None},
     caller_phone : Optional(InboundPhones)]

(* personalization up to its awaits (lines 145-176): the body is read and  *)
(* parsed; no table is read or written yet.                                *)
PersonalizationRequest(payload) ==
    /\ Cardinality(pending) < MaxInFlight
    /\ pending' = pending \cup {[handler |-> "personalization", payload |-> payload]}
    /\ UNCHANGED <<leads, calls, last>>
    /\ UNCHANGED caches

(* personalization after its last await (lines 178-397): the lookups and   *)
(* writes run on the event loop without suspension.                        *)
PersonalizationBody(p) ==
    /\ p \in pending /\ p.handler = "personalization"
    /\ \E res \in personalization(leads, calls, p.payload) :
          /\ Len(res.leads) <= MaxLeads /\ Len(res.calls) <= MaxCalls
          /\ leads' = res.leads
          /\ calls' = res.calls
          /\ last' = CallResult("personalization", res.lead_id, res.call_id, res.ret)
    /\ pending' = pending \ {p}
    /\ UNCHANGED caches

NextInbound ==
    \/ \E payload \in InboundInputs : PersonalizationRequest(payload)
    \/ \E p \in pending : PersonalizationBody(p)

SpecInbound == Init /\ [][NextInbound]_vars

(* The stored leads a caller phone stands for: those stored with the same  *)
(* phone string and those that agree with it on the last 10 digits.        *)
LeadsOfCaller(phone) ==
    {i \in LeadIds : leads[i].phone = Some(phone)} \cup LeadsMatching(phone)

(* C38 as claimed: whatever the interleaving of the personalization events *)
(* of one caller phone, the store never holds more than one lead for that  *)
(* phone.                                                                  *)
C38_OneLeadPerCaller ==
    \A phone \in InboundPhones : Cardinality(LeadsOfCaller(phone)) <= 1

(* C38, states: no two leads are stored for a caller phone of at least 10  *)
(* digits.                                                                 *)
C38_Inv ==
    \A phone \in InboundPhones :
        Len(DigitsOf(phone)) >= 10 => Cardinality(LeadsOfCaller(phone)) <= 1

(* C38, steps: an event of a caller phone of at least 10 digits creates a  *)
(* lead only when no lead is stored for the phone, and the Call it creates *)
(* belongs to the one lead of that phone.                                  *)
C38_Step ==
    \A p \in pending :
        (/\ pending' = pending \ {p}
         /\ p.payload.caller_phone # None
         /\ Len(DigitsOf(p.payload.caller_phone[1])) >= 10)
        => LET phone == p.payload.caller_phone[1]
               known == {i \in LeadIds : leads[i].phone # None
                                            /\ SameLast10(phone, leads[i].phone[1])}
               after == {i \in 1..Len(leads') : leads'[i].phone # None
                                            /\ SameLast10(phone, leads'[i].phone[1])}
           IN  /\ known # {} => leads' = leads
               /\ Len(leads') <= Len(leads) + 1
               /\ Len(calls') > Len(calls) =>
                     /\ Cardinality(after) = 1
                     /\ calls'[Len(calls')].lead_id \in after

(* C38, amended: under any interleaving of personalization events that     *)
(* carry the same previously-unknown caller phone of at least 10 digits    *)
(* (with different conversation ids), at most one new Lead is created for  *)
(* that phone and the Calls of these events belong to that Lead.           *)
C38_OneLeadPerLongCaller == []C38_Inv /\ [][C38_Step]_vars

(* C38 witness: two events of the same number, one in national and one in  *)
(* international writing, under different conversation ids, have been      *)
(* processed: one lead, two Calls of that lead.                            *)
C38_Witness ==
    /\ last.op = "personalization" /\ last.ret = "lead" /\ pending = {}
    /\ Len(leads) = 1 /\ leads[1].phone \in {Some(PhoneNational), Some(PhoneIntl)}
    /\ Len(calls) = 2 /\ calls[1].lead_id = 1 /\ calls[2].lead_id = 1
    /\ calls[1].conversation_id # calls[2].conversation_id
    /\ calls[1].conversation_id # None /\ calls[2].conversation_id # None

(* C40: a caller phone with fewer than 10 digits matches no stored lead,   *)
(* not even one stored with the identical phone string; a personalization  *)
(* event of such a caller under a conversation id that is no Call's key    *)
(* creates a new Lead with that phone and a Call of that Lead.             *)
C40_ShortPhoneNeverMatches ==
    \A payload \in InboundInputs :
        (payload.caller_phone # None /\ Len(DigitsOf(payload.caller_phone[1])) < 10)
        => /\ find_lead_by_phone(leads, payload.caller_phone[1]) = {}
           /\ (payload.conversation_id # None /\ ~KeyInUse(payload.conversation_id))
                 => \A res \in personalization(leads, calls, payload) :
                       /\ res.ret = "lead"
                       /\ Len(res.leads) = Len(leads) + 1
                       /\ res.lead_id = Len(res.leads)
                       /\ res.leads[res.lead_id].phone = payload.caller_phone
                       /\ SubSeq(res.leads, 1, Len(leads)) = leads
                       /\ Len(res.calls) = Len(calls) + 1
                       /\ res.calls[res.call_id].lead_id = res.lead_id
                       /\ res.calls[res.call_id].conversation_id = payload.conversation_id

(* C40 witness: the second event of a 6-digit caller created a second lead *)
(* with the identical phone string, and its Call belongs to that lead.     *)
C40_Witness ==
    /\ last.op = "personalization" /\ last.ret = "lead"
    /\ Len(leads) = 2 /\ last.lead_id = 2
    /\ leads[1].phone = Some(PhoneShort) /\ leads[2].phone = Some(PhoneShort)
    /\ calls[last.call_id].lead_id = 2

====
